---- MODULE Spec2Model ----
(***************************************************************************)
(* notion-to-anki: the flashcard pipeline (src/domain/flashcard/service.py) *)
(* with its summary cache and validator, and the rate-limited, retried      *)
(* summarizer gate of src/domain/flashcard/flashcard.py.                    *)
(*                                                                          *)
(* A Python str is a sequence of one-character strings; Python None is the  *)
(* one-element sequence PyNone, which no str equals.                        *)
(***************************************************************************)
EXTENDS Integers, Sequences, FiniteSets, TLC

VARIABLES
    pc,               \* position of create_flashcards: idle, item, save, progress, except, pause, final, returned, raised
    has_chatbot,      \* whether a chatbot was passed to create_flashcards
    has_task_service, \* whether the creator was built with a task_service
    total_items,      \* len(notion_content)
    processed_items,
    skipped_items,
    item,             \* the element of notion_content the loop is at
    card,             \* the Flashcard returned by process_single_flashcard
    rows,             \* the export sink: the rows save_flashcard has written, in order
    existing,         \* the fronts the sink held before the run
    save_calls,       \* number of save_flashcard calls of the run
    save_raised,      \* whether some save_flashcard call of the run raised
    update_raised,    \* whether some update_task_progress call of the run raised
    faults,           \* number of save_flashcard and update_task_progress calls that raised
    updates,          \* the progress updates the task service stored, in order
    result,           \* what create_flashcards returned or raised
    cache,            \* FlashcardCache.cache: sequence of [key, value, expires], oldest first
    hashfn,           \* the process's str hash, restricted to the prompts of the model
    now,              \* time.monotonic(), in seconds
    gate_log,         \* the get_cached_summary calls of the run, in order
    rl_now,           \* time.time() of the rate limiter's process, in ticks
    last_called,      \* rate_limit: last_called[0]
    cpc,              \* per caller: position in the decorated get_cached_summary
    wake,             \* per caller: when its asyncio.sleep ends
    entry_last,       \* per caller: last_called[0] as read on entry
    attempts,         \* per caller: number of the retry wrapper's current attempt
    outcome,          \* per caller: what its last call returned, after how many attempts, and
                      \* whether the chatbot raised on the last of them
    dispatches,       \* the dispatches of the gated function: [at, entry_last, slept], in order
    overlapped,       \* whether some call entered the gate while another was inside it
    entered,          \* number of get_cached_summary calls made so far
    lcache,           \* the creator's FlashcardCache.cache, as cache above
    sclock,           \* time.time() of the store's process and of the Redis server, in seconds
    dstore,           \* a DictionaryBackend: [data, expiry, sorted_sets]
    rstore,           \* a Redis server: [strings, zsets, deadline]
    sres,             \* the last storage operation: [op, d, r, at], d and r what it returned
    sops,             \* number of storage operations made that write
    sset,             \* per key: the last set of it, [value, expiry, at], unless deleted since
    backend,          \* what the TaskService was given as redis: "redis" (a Redis client) or
                      \* "dict" (a DictionaryBackend)
    tlock,            \* TaskService._lock: 0 when free, else the caller holding it
    tcaller,          \* per caller of the TaskService: [pc, op, fields, task_data]
    tcalls,           \* number of create_task and update_task_progress calls made
    texpected,        \* the record the writes made so far give when applied one after the other
    twrote,           \* the last write of the task key: [doc, at, tried], -1 if never
    tkept,            \* whether every update since the last create_task read a live record
    tres,             \* the last call that ended: [op, kind, v, code, arg, at]
    hist,             \* the history appends so far: [count, faults, missing, first, last]
    connections,      \* WebSocketManager.connections: task id -> websocket
    wpc,              \* per websocket: position of its websocket_endpoint: new, accepting, open, done
    inbox,            \* per websocket: the progress messages its client received, in order
    sending,          \* per TaskService caller: the websocket its send_json is awaiting, or ""
    wlog,             \* the send_progress calls so far: [events, reg, order, tries, healed]
    job,              \* generate_flashcards and its background job: [pc, created, n, fetch,
                      \* exc, text, history, cleanup_raised, raised]
    container,        \* StorageConnection and DependencyContainer: [storage_type, instance,
                      \* lock, task_service, backends, services]
    dcaller,          \* per caller of the container: [pc, op, storage, ret, raised]
    sink,             \* a CSVFlashcardRepository: [file, partial, lock, saved]
    rproc             \* per user of the repository: [pc, card, content, ret, at]

pipe_vars == <<pc, has_chatbot, has_task_service, total_items, processed_items,
               skipped_items, item, card, rows, existing, save_calls, save_raised,
               update_raised, faults, updates, result, cache, hashfn, now, gate_log>>
gate_vars == <<rl_now, last_called, cpc, wake, entry_last, attempts, outcome,
               dispatches, overlapped, entered, lcache>>
store_vars == <<sclock, dstore, rstore, sres, sops, sset>>
ws_vars == <<connections, wpc, inbox, sending, wlog>>
proc_vars == <<container, dcaller, sink, rproc>>
task_vars == <<backend, tlock, tcaller, tcalls, texpected, twrote, tkept, tres, hist, ws_vars, job,
               proc_vars>>
ext_vars == <<store_vars, task_vars>>
vars == <<pipe_vars, gate_vars, ext_vars>>

(***************************************************************************)
(* Bounds                                                                   *)
(***************************************************************************)
MaxRecords == 2
MaxFaults == 1
MaxTicks == 3
MaxRlTime == 7
MaxCalls == 3
NumCallers == 2
MaxStoreOps == 2
MaxTaskCalls == 2
MaxPage == 6
MaxDepCalls == 3
MaxSaves == 3
MaxReads == 2
MaxAppends == 5
MaxHistFaults == 1
history_cap == 3
MaxHalfDays == 3
HalfDay == 43200
MaxStoreTime == 3
ShortExpiry == 2

(***************************************************************************)
(* Python str operations                                                    *)
(***************************************************************************)
PyNone == <<"<None>">>

Whitespace == {" ", "\t", "\n"}

Repeat(c, n) == [i \in 1..n |-> c]

\* str.strip(): the text between the first and the last non-whitespace character
strip(s) ==
    IF \A i \in 1..Len(s) : s[i] \in Whitespace
    THEN <<>>
    ELSE LET lo == CHOOSE i \in 1..Len(s) :
                       s[i] \notin Whitespace /\ \A j \in 1..(i - 1) : s[j] \in Whitespace
             hi == CHOOSE i \in 1..Len(s) :
                       s[i] \notin Whitespace /\ \A j \in (i + 1)..Len(s) : s[j] \in Whitespace
         IN  SubSeq(s, lo, hi)

\* len(text.split())
word_count(s) ==
    Cardinality({i \in 1..Len(s) :
        s[i] \notin Whitespace /\ (i = 1 \/ s[i - 1] \in Whitespace)})

Truthy(x) == x # PyNone /\ x # <<>>

(***************************************************************************)
(* The strings of the model                                                 *)
(***************************************************************************)
S_Q1 == <<"Q", "1">>
S_Q2 == <<"Q", "2">>
S_ab == <<"a", "b">>
S_abc_padded == <<" ", "a", "b", "c", " ">>
S_blank == <<" ", " ", " ">>
S_None == <<"N", "o", "n", "e">>
S_Summary_unavailable == <<"S", "u", "m", "m", "a", "r", "y", " ", "u", "n", "a", "v", "a", "i", "l", "a", "b", "l", "e">>
S_A1 == <<"A", "1">>
S_A1_padded == <<" ", "A", "1", " ">>
S_u1 == <<"u", "1">>
S_u2 == <<"u", "2">>
S_summary1 == <<"S", "1">>

\* a text of more words than SummaryLength.MEDIUM.word_limit()
S_long == [i \in 1..(2 * 51 - 1) |-> IF i % 2 = 1 THEN "w" ELSE " "]

\* the records a content source can hand to the pipeline: {front, back, url}
Records ==
    {[front |-> S_Q1, back |-> S_A1, url |-> S_u1],
     [front |-> S_Q2, back |-> S_long, url |-> S_u2],
     [front |-> S_ab, back |-> S_A1, url |-> S_u1],
     [front |-> S_abc_padded, back |-> S_A1_padded, url |-> S_u2],
     [front |-> S_blank, back |-> S_A1, url |-> S_u1],
     [front |-> S_None, back |-> S_long, url |-> S_u1],
     [front |-> S_Summary_unavailable, back |-> S_A1, url |-> S_u2],
     [front |-> <<>>, back |-> S_A1, url |-> S_u1],
     [front |-> S_Q1, back |-> <<>>, url |-> S_u1],
     [front |-> Repeat("a", 500), back |-> S_A1, url |-> S_u1],
     [front |-> Repeat("a", 501), back |-> S_A1, url |-> S_u1]}

\* the records handed to a pipeline that summarizes
SummarizedRecords ==
    {[front |-> S_Q1, back |-> S_A1, url |-> S_u1],
     [front |-> S_Q2, back |-> S_long, url |-> S_u2],
     [front |-> S_abc_padded, back |-> S_A1_padded, url |-> S_u2],
     [front |-> <<>>, back |-> S_A1, url |-> S_u1]}

NoItem == [front |-> <<>>, back |-> <<>>, url |-> <<>>]

(***************************************************************************)
(* FlashcardValidator, Flashcard, FlashcardGenerationConfig                 *)
(***************************************************************************)
min_length == 3
max_length == 500

\* FlashcardValidator.validate_flashcard_content(text) for a str text
validate_flashcard_content(text) ==
    IF text = <<>> THEN FALSE
    ELSE LET t == strip(text)
         IN  IF t = <<>> \/ t = S_Summary_unavailable THEN FALSE
             ELSE min_length <= Len(t) /\ Len(t) <= max_length /\ strip(t) # S_None

Flashcard_NoTrim(front, back, url) ==
    [raised |-> front = <<>> \/ back = <<>>, front |-> front, back |-> back, url |-> url]

\* Flashcard(front, back, url): __post_init__ raises ValueError or trims
Flashcard(front, back, url) ==
    IF front = <<>> \/ back = <<>>
    THEN [raised |-> TRUE, front |-> front, back |-> back, url |-> url]
    ELSE [raised |-> FALSE, front |-> strip(front), back |-> strip(back), url |-> url]

NoCard == [raised |-> TRUE, front |-> <<>>, back |-> <<>>, url |-> <<>>]

\* Flashcard(...) of every record of the model, evaluated once
FlashcardTable == [r \in Records |-> Flashcard(r.front, r.back, r.url)]

\* SummaryLength.MEDIUM.word_limit(), the default of FlashcardGenerationConfig
word_limit == 50

\* the character U+0060, which a TLA+ string cannot hold
BackQuote == "<backquote>"

\* FlashcardGenerationConfig.get_summary_prompt(text), summary_length MEDIUM
get_summary_prompt(text) ==
    IF word_count(text) <= word_limit
    THEN <<"[[">> \o strip(text) \o <<"]]">>
    ELSE <<"Provide a clear summary in about 100 words: ", "\n", "\n", BackQuote>> \o text \o <<BackQuote>>

PROMPT_PREFIX == <<"Summarize the following text. Provide only the summary, enclosed in [[ ]]">>

\* f"{self.PROMPT_PREFIX}. {config.get_summary_prompt(text)}"
Prompt(text) == PROMPT_PREFIX \o <<".", " ">> \o get_summary_prompt(text)

\* the suffix appended to card.back: newline, " URL: ", an anchor on item["url"]
LinkSuffix(url) == <<"\n", " URL: <a href=", "\"">> \o url \o <<"\"", ">Link</a>">>

(***************************************************************************)
(* FlashcardCache over cachetools.TTLCache                                  *)
(***************************************************************************)
cache_maxsize == 100
cache_expiry == 3600
HashSpace == 2

\* the texts the pipeline summarizes, and their prompts, evaluated once
Texts == {FlashcardTable[r].back : r \in {q \in Records : ~FlashcardTable[q].raised}}
PromptTable == [text \in Texts |-> Prompt(text)]
Prompts == {PromptTable[text] : text \in Texts}

\* f"summary_{hash(prompt)}"
CacheKey(h, prompt) == <<"summary_", h[prompt]>>

\* TTLCache.expire(): drop the entries whose time is up
CacheExpire(c, t) == SelectSeq(c, LAMBDA e : t < e.expires)

\* TTLCache.get(key): None when absent or expired
TTLCacheGet(c, key, t) ==
    LET live == SelectSeq(CacheExpire(c, t), LAMBDA e : e.key = key)
    IN  IF live = <<>> THEN PyNone ELSE live[1].value

\* TTLCache.__setitem__(key, value): [raised, cache]
TTLCacheSet(c, key, value, t) ==
    IF cache_maxsize < 1
    THEN [raised |-> TRUE, cache |-> c]
    ELSE LET live == CacheExpire(c, t)
             others == SelectSeq(live, LAMBDA e : e.key # key)
             kept == IF Len(others) = Len(live) /\ Len(live) >= cache_maxsize
                     THEN SubSeq(others, Len(others) - cache_maxsize + 2, Len(others))
                     ELSE others
         IN  [raised |-> FALSE,
              cache |-> Append(kept, [key |-> key, value |-> value, expires |-> t + cache_expiry])]

handle_service_errors_Propagate(r, default_return_value) == r

\* handle_service_errors(default_return_value): an exception becomes the default
handle_service_errors(r, default_return_value) ==
    IF r.raised THEN [r EXCEPT !.raised = FALSE, !.ret = default_return_value] ELSE r

\* FlashcardCache.get, decorated with handle_service_errors(None)
FlashcardCacheGet(c, key, t) == TTLCacheGet(c, key, t)

FlashcardCacheSet_Drop(c, key, value, t) == c

\* FlashcardCache.set, decorated with handle_service_errors(): the cache afterwards
FlashcardCacheSet(c, key, value, t) == TTLCacheSet(c, key, value, t).cache

(***************************************************************************)
(* The chatbot: what one get_summary call does                              *)
(***************************************************************************)
BotRaise == [raises |-> TRUE, value |-> PyNone]
BotOutcomes == {BotRaise} \cup {[raises |-> FALSE, value |-> v] : v \in {PyNone, S_summary1}}

(***************************************************************************)
(* FlashcardCreator.get_cached_summary (service.py)                         *)
(* [raised, ret, cache, invoked, hit, prompt]                               *)
(***************************************************************************)
get_cached_summary_body_CacheAll(text, chatbot, bot, c, h, t) ==
    LET prompt == PromptTable[text]
    IN  [raised |-> bot.raises, ret |-> bot.value,
         cache |-> FlashcardCacheSet(c, CacheKey(h, prompt), bot.value, t),
         invoked |-> TRUE, hit |-> FALSE, prompt |-> prompt]

get_cached_summary_body(text, chatbot, bot, c, h, t) ==
    IF ~chatbot
    THEN [raised |-> FALSE, ret |-> text, cache |-> c, invoked |-> FALSE, hit |-> FALSE,
          prompt |-> <<>>]
    ELSE LET prompt == PromptTable[text]
             cache_key == CacheKey(h, prompt)
             cached_summary == FlashcardCacheGet(c, cache_key, t)
         IN  IF Truthy(cached_summary)
             THEN [raised |-> FALSE, ret |-> cached_summary, cache |-> c, invoked |-> FALSE,
                   hit |-> TRUE, prompt |-> prompt]
             ELSE IF bot.raises
             THEN \* raise ChatBotError(str(e), ...)
                  [raised |-> TRUE, ret |-> PyNone, cache |-> c, invoked |-> TRUE,
                   hit |-> FALSE, prompt |-> prompt]
             ELSE IF Truthy(bot.value)
             THEN [raised |-> FALSE, ret |-> bot.value,
                   cache |-> FlashcardCacheSet(c, cache_key, bot.value, t),
                   invoked |-> TRUE, hit |-> FALSE, prompt |-> prompt]
             ELSE [raised |-> FALSE, ret |-> PyNone, cache |-> c, invoked |-> TRUE,
                   hit |-> FALSE, prompt |-> prompt]

get_cached_summary(text, chatbot, bot, c, h, t) ==
    handle_service_errors(get_cached_summary_body(text, chatbot, bot, c, h, t), PyNone)

(***************************************************************************)
(* FlashcardCreator.process_single_flashcard                                *)
(* [kind: "card" | "none" | "raise", card, cache, gate]                     *)
(* gate is <<>> or the one get_cached_summary call made                     *)
(***************************************************************************)
process_single_flashcard(it, chatbot, bot, c, h, t) ==
    LET fc == FlashcardTable[it]
    IN  IF fc.raised
        THEN \* ValueError -> except Exception -> raise FlashcardCreationError
             [kind |-> "raise", card |-> NoCard, cache |-> c, gate |-> <<>>]
        ELSE \* validate_flashcard_content(card.front): the result is discarded
             IF chatbot
             THEN LET g == get_cached_summary(fc.back, chatbot, bot, c, h, t)
                  IN  IF g.raised
                      THEN \* except (FlashcardValidationError, ChatBotError): return None
                           [kind |-> "none", card |-> NoCard, cache |-> g.cache, gate |-> <<g>>]
                      ELSE IF ~Truthy(g.ret)
                      THEN \* raise FlashcardCreationError("Failed to generate summary")
                           [kind |-> "raise", card |-> NoCard, cache |-> g.cache, gate |-> <<g>>]
                      ELSE [kind |-> "card",
                            card |-> [fc EXCEPT !.back = g.ret \o LinkSuffix(it.url)],
                            cache |-> g.cache, gate |-> <<g>>]
             ELSE [kind |-> "card",
                   card |-> [fc EXCEPT !.back = fc.back \o LinkSuffix(it.url)],
                   cache |-> c, gate |-> <<>>]

(***************************************************************************)
(* FlashcardCreator.create_flashcards (service.py)                          *)
(***************************************************************************)
TickSeconds == 1800

\* int((processed_items / total_items) * 100)
Progress_Done(p, t) == 100

\* int((processed_items / total_items) * 100)
Progress(p, t) == (p * 100) \div t

NoResult == [kind |-> "none", message |-> <<>>, status |-> ""]

\* core/exceptions: the error_code of the AppError subclasses the pipeline and the job raise
error_code ==
    [e \in {"ValidationError", "ResourceNotFoundError", "ExternalServiceError"} |->
        CASE e = "ValidationError" -> "VALIDATION_ERROR"
          [] e = "ResourceNotFoundError" -> "RESOURCE_NOT_FOUND"
          [] OTHER -> "EXTERNAL_SERVICE_ERROR"] @@
    [e \in {"NotionError", "NotionAuthenticationError", "NotionContentError"} |-> "NOTION_ERROR"] @@
    [e \in {"FlashcardError", "FlashcardCreationError"} |-> "FLASHCARD_ERROR"]

\* core/error_handling.py line 44-80: the first entry of {**DEFAULT_ERROR_MAPPING, **error_mapping}
\* the exception is an instance of decides; AppError is the first key, so every AppError
\* becomes HTTPException(500) whatever the custom mapping says
handle_exceptions(exc) ==
    [raises |-> "HTTPException", status_code |-> 500,
     error_code |-> IF exc \in DOMAIN error_code THEN error_code[exc] ELSE ""]

Raised(exc) == [kind |-> "raised", message |-> <<handle_exceptions(exc)>>, status |-> ""]

not_content_Never(n) == FALSE

\* line 230: if not notion_content
not_content(n) == n = 0

\* the sink's content before the run
ExistingChoices == {<<>>, <<[front |-> S_Q1, back |-> S_A1 \o LinkSuffix(S_u1)]>>}

\* only the equality of two hashes is read, so one prompt's hash is fixed
HashFns == {h \in [Prompts -> 0..(HashSpace - 1)] : h[PromptTable[S_A1]] = 0}

\* the gate is not used
GateIdle ==
    /\ rl_now = 0
    /\ last_called = 0
    /\ cpc = <<>>
    /\ wake = <<>>
    /\ entry_last = <<>>
    /\ attempts = <<>>
    /\ outcome = <<>>
    /\ dispatches = <<>>
    /\ overlapped = FALSE
    /\ entered = 0
    /\ lcache = <<>>

\* no store is used
StoreIdle ==
    /\ sclock = 0
    /\ dstore = <<>>
    /\ rstore = <<>>
    /\ sres = <<>>
    /\ sops = 0
    /\ sset = <<>>

\* no TaskService is used
TaskIdle ==
    /\ backend = ""
    /\ tlock = ""
    /\ tcaller = <<>>
    /\ tcalls = 0
    /\ texpected = <<>>
    /\ twrote = <<>>
    /\ tkept = FALSE
    /\ tres = <<>>
    /\ hist = <<>>

\* no websocket is used
WsIdle ==
    /\ connections = <<>>
    /\ wpc = <<>>
    /\ inbox = <<>>
    /\ sending = <<>>
    /\ wlog = <<>>

\* no job runs
JobIdle == job = <<>>

\* the container is not used
DepIdle ==
    /\ container = <<>>
    /\ dcaller = <<>>

\* no repository is used
RepoIdle ==
    /\ sink = <<>>
    /\ rproc = <<>>

ProcIdle == DepIdle /\ RepoIdle

ExtIdle == StoreIdle /\ TaskIdle /\ WsIdle /\ JobIdle /\ ProcIdle

PipeInit ==
    /\ pc = "idle"
    /\ has_chatbot \in BOOLEAN
    /\ has_task_service \in BOOLEAN
    /\ total_items = 0
    /\ processed_items = 0
    /\ skipped_items = 0
    /\ item = NoItem
    /\ card = NoCard
    /\ existing \in (IF has_chatbot THEN {<<>>} ELSE ExistingChoices)
    /\ rows = existing
    /\ save_calls = 0
    /\ save_raised = FALSE
    /\ update_raised = FALSE
    /\ faults = 0
    /\ updates = <<>>
    /\ result = NoResult
    /\ cache = <<>>
    /\ hashfn \in (IF has_chatbot THEN HashFns ELSE {CHOOSE h \in HashFns : TRUE})
    /\ now = 0
    /\ gate_log = <<>>

for_next_Stop(processed, total) == "final"

\* line 238: for item in notion_content, after the item numbered processed
for_next(processed, total) == IF processed < total THEN "item" ELSE "final"

\* line 230-235: the call, with a notion_content of n records
Call(n) ==
    /\ pc = "idle"
    /\ total_items' = n
    /\ IF not_content(n)
       THEN \* raise ValidationError -> handle_exceptions -> HTTPException
            /\ pc' = "raised"
            /\ result' = Raised("ValidationError")
       ELSE /\ pc' = "item"
            /\ UNCHANGED result
    /\ UNCHANGED <<has_chatbot, has_task_service, processed_items, skipped_items, item,
                   card, rows, existing, save_calls, save_raised, update_raised, faults,
                   updates, cache, hashfn, now, gate_log>>
    /\ UNCHANGED <<gate_vars, ext_vars>>

\* line 238-246: the next record goes through process_single_flashcard
ProcessSingle(it, bot) ==
    /\ pc = "item"
    /\ has_chatbot => it \in SummarizedRecords
    /\ ~has_chatbot => bot = BotRaise   \* no chatbot is called
    /\ LET r == process_single_flashcard(it, has_chatbot, bot, cache, hashfn, now)
       IN  /\ item' = it
           /\ processed_items' = processed_items + 1
           /\ cache' = r.cache
           /\ gate_log' = gate_log \o [i \in 1..Len(r.gate) |->
                              [index |-> processed_items + 1,
                               prompt |-> r.gate[i].prompt, invoked |-> r.gate[i].invoked,
                               hit |-> r.gate[i].hit, ret |-> r.gate[i].ret,
                               raised |-> r.gate[i].raised, failed |-> bot.raises, at |-> now]]
           /\ card' = r.card
           /\ IF r.kind = "card"
              THEN /\ pc' = "save"
                   /\ UNCHANGED skipped_items
              ELSE IF r.kind = "none"
              THEN \* skipped_items += 1; continue
                   /\ skipped_items' = skipped_items + 1
                   /\ pc' = for_next(processed_items + 1, total_items)
              ELSE /\ pc' = "except"
                   /\ UNCHANGED skipped_items
    /\ UNCHANGED <<has_chatbot, has_task_service, total_items, rows, existing, save_calls,
                   save_raised, update_raised, faults, updates, result, hashfn, now>>
    /\ UNCHANGED <<gate_vars, ext_vars>>

\* line 249: await self.flashcard_repository.save_flashcard(card)
SaveFlashcard(ok) ==
    /\ pc = "save"
    /\ ok \/ faults < MaxFaults
    /\ save_calls' = save_calls + 1
    /\ IF ok
       THEN /\ rows' = Append(rows, [front |-> card.front, back |-> card.back])
            /\ pc' = IF has_task_service THEN "progress" ELSE "pause"
            /\ UNCHANGED <<save_raised, faults>>
       ELSE /\ save_raised' = TRUE
            /\ faults' = faults + 1
            /\ pc' = "except"
            /\ UNCHANGED rows
    /\ UNCHANGED <<has_chatbot, has_task_service, total_items, processed_items,
                   skipped_items, item, card, existing, update_raised, updates, result,
                   cache, hashfn, now, gate_log>>
    /\ UNCHANGED <<gate_vars, ext_vars>>

\* line 252-259: the progress update after a save
UpdateProgress(ok) ==
    /\ pc = "progress"
    /\ ok \/ faults < MaxFaults
    /\ IF ok
       THEN /\ updates' = Append(updates,
                [progress |-> Progress(processed_items, total_items), status |-> "processing",
                 message |-> <<"Created flashcard", processed_items, total_items>>])
            /\ pc' = "pause"
            /\ UNCHANGED <<update_raised, faults>>
       ELSE /\ update_raised' = TRUE
            /\ faults' = faults + 1
            /\ pc' = "except"
            /\ UNCHANGED updates
    /\ UNCHANGED <<has_chatbot, has_task_service, total_items, processed_items,
                   skipped_items, item, card, rows, existing, save_calls, save_raised,
                   result, cache, hashfn, now, gate_log>>
    /\ UNCHANGED <<gate_vars, ext_vars>>

Except_Reraise(ok) ==
    /\ pc = "except"
    /\ ok
    /\ pc' = "raised"
    /\ result' = Raised("FlashcardCreationError")
    /\ UNCHANGED <<has_chatbot, has_task_service, total_items, processed_items,
                   skipped_items, item, card, rows, existing, save_calls, save_raised,
                   update_raised, faults, updates, cache, hashfn, now, gate_log>>
    /\ UNCHANGED <<gate_vars, ext_vars>>

\* line 261-271: except Exception
Except(ok) ==
    /\ pc = "except"
    /\ ok \/ (has_task_service /\ faults < MaxFaults)
    /\ skipped_items' = skipped_items + 1
    /\ IF ~has_task_service
       THEN /\ pc' = "pause"
            /\ UNCHANGED <<updates, update_raised, faults, result>>
       ELSE IF ok
       THEN /\ updates' = Append(updates,
                [progress |-> Progress(processed_items, total_items), status |-> "warning",
                 message |-> <<"Error with flashcard", processed_items, total_items>>])
            /\ pc' = "pause"
            /\ UNCHANGED <<update_raised, faults, result>>
       ELSE \* line 293: raise FlashcardCreationError -> handle_exceptions -> HTTPException
            /\ update_raised' = TRUE
            /\ faults' = faults + 1
            /\ pc' = "raised"
            /\ result' = Raised("FlashcardCreationError")
            /\ UNCHANGED updates
    /\ UNCHANGED <<has_chatbot, has_task_service, total_items, processed_items, item, card,
                   rows, existing, save_calls, save_raised, cache, hashfn, now, gate_log>>
    /\ UNCHANGED <<gate_vars, ext_vars>>

\* line 273: await asyncio.sleep(0.1), during which d seconds pass
Pause(d) ==
    /\ pc = "pause"
    /\ now + d <= MaxTicks * TickSeconds
    /\ d = 0 \/ cache # <<>>   \* only the cache reads the clock
    /\ now' = now + d
    /\ pc' = for_next(processed_items, total_items)
    /\ item' = NoItem
    /\ card' = NoCard
    /\ UNCHANGED <<has_chatbot, has_task_service, total_items, processed_items,
                   skipped_items, rows, existing, save_calls, save_raised,
                   update_raised, faults, updates, result, cache, hashfn, gate_log>>
    /\ UNCHANGED <<gate_vars, ext_vars>>

\* line 276-284
FinalStatus_Swapped(skipped, total) ==
    IF skipped > 0 THEN "completed_with_errors"
    ELSE IF skipped = total THEN "failed"
    ELSE "completed"

FinalStatus(skipped, total) ==
    IF skipped = total THEN "failed"
    ELSE IF skipped > 0 THEN "completed_with_errors"
    ELSE "completed"

FinalMessage(processed, skipped, total) ==
    IF skipped = total THEN <<"All flashcards failed to generate">>
    ELSE IF skipped > 0
    THEN <<"Flashcard generation completed with", processed - skipped,
           "successful and", skipped, "failed">>
    ELSE <<"Flashcard generation completed successfully for all", total, "flashcards">>

\* line 275-294: classification, final progress update, return
Final(ok) ==
    /\ pc = "final"
    /\ ok \/ (has_task_service /\ faults < MaxFaults)
    /\ LET status == FinalStatus(skipped_items, total_items)
           message == FinalMessage(processed_items, skipped_items, total_items)
       IN  IF has_task_service /\ ~ok
           THEN /\ update_raised' = TRUE
                /\ faults' = faults + 1
                /\ pc' = "raised"
                /\ result' = Raised("FlashcardCreationError")
                /\ UNCHANGED updates
           ELSE /\ updates' = IF has_task_service
                              THEN Append(updates, [progress |-> 100, status |-> status,
                                                    message |-> message])
                              ELSE updates
                /\ pc' = "returned"
                /\ result' = [kind |-> "returned", message |-> message, status |-> status]
                /\ UNCHANGED <<update_raised, faults>>
    /\ UNCHANGED <<has_chatbot, has_task_service, total_items, processed_items,
                   skipped_items, item, card, rows, existing, save_calls, save_raised,
                   cache, hashfn, now, gate_log>>
    /\ UNCHANGED <<gate_vars, ext_vars>>

Next ==
    \/ \E n \in 0..MaxRecords : Call(n)
    \/ \E it \in Records, bot \in BotOutcomes : ProcessSingle(it, bot)
    \/ \E ok \in BOOLEAN : SaveFlashcard(ok)
    \/ \E ok \in BOOLEAN : UpdateProgress(ok)
    \/ \E ok \in BOOLEAN : Except(ok)
    \/ \E d \in {0, TickSeconds, 2 * TickSeconds} : Pause(d)
    \/ \E ok \in BOOLEAN : Final(ok)

Init == PipeInit /\ GateIdle /\ ExtIdle

Spec == Init /\ [][Next]_vars

(***************************************************************************)
(* Properties of the pipeline                                               *)
(***************************************************************************)
\* the rows the run has added to the sink
Saved == Len(rows) - Len(existing)

\* the records whose iteration is over, or is past its save
Settled == IF pc \in {"save", "except"} THEN processed_items - 1 ELSE processed_items

\* Every record that is not saved is counted once in skipped_items, as long as no
\* progress update raised.
Accounting == ~update_raised => skipped_items = Settled - Saved

\* C1: when create_flashcards returns for a non-empty list, the returned status is
\* "failed" exactly when skipped_items equals the total, "completed" exactly when it
\* is zero, "completed_with_errors" otherwise; the final progress update carries the
\* same status with progress 100; and skipped_items is the number of unsaved records.
C1_FinalStatusClassification ==
    pc = "returned" =>
        /\ total_items > 0
        /\ result.status \in {"failed", "completed", "completed_with_errors"}
        /\ (result.status = "failed") <=> (skipped_items = total_items)
        /\ (result.status = "completed") <=> (skipped_items = 0)
        /\ has_task_service =>
              /\ updates # <<>>
              /\ updates[Len(updates)].status = result.status
              /\ updates[Len(updates)].progress = 100
              /\ updates[Len(updates)].message = result.message
        /\ ~update_raised => skipped_items = total_items - Saved

C1_Witness ==
    /\ pc = "returned"
    /\ has_task_service
    /\ result.status = "completed_with_errors"
    /\ total_items = 2

\* C2: a record whose front fails validate_flashcard_content is never handed to
\* save_flashcard.
C2_InvalidFrontNeverSaved ==
    pc = "save" => validate_flashcard_content(item.front)

\* C3: a record whose front is already in the sink is never handed to save_flashcard.
C3_ExistingFrontNeverSaved ==
    pc = "save" => \A i \in 1..Len(existing) : existing[i].front # card.front

\* C4: a save_flashcard failure is absorbed. The record it hits is counted once and
\* not written; the loop goes on to the next record or to the classification; and
\* create_flashcards raises only for an empty list or when a progress update raised,
\* never because save_flashcard raised. The handler after a failure adds one to
\* skipped_items and leaves the sink alone.
C4_SaveFailureAbsorbed ==
    /\ [](pc = "raised" => (total_items = 0 \/ update_raised))
    /\ [](pc = "returned" => processed_items = total_items)
    /\ [](Accounting)
    /\ [][pc = "except" =>
            /\ skipped_items' = skipped_items + 1
            /\ rows' = rows
            /\ processed_items' = processed_items
            /\ pc' = "pause" \/ (pc' = "raised" /\ update_raised')]_vars
    /\ [][pc = "pause" =>
            pc' = IF processed_items < total_items THEN "item" ELSE "final"]_vars

\* a later record is saved after an earlier save_flashcard raised, and the run returns
C4_Witness ==
    /\ pc = "returned"
    /\ save_raised
    /\ ~update_raised
    /\ Saved = 1
    /\ skipped_items = 1
    /\ result.status = "completed_with_errors"

C6_ChatbotFailureRaises ==
    \A i \in 1..Len(gate_log) :
        (gate_log[i].invoked /\ gate_log[i].failed) => gate_log[i].raised

\* C10: of two successive get_cached_summary calls with the same prompt, the first
\* invoking the chatbot and getting a non-empty summary, the second made less than
\* cache_expiry seconds later, the second does not invoke the chatbot and returns the
\* summary of the first.
C10_CacheHitSkipsSummarizer ==
    \A i \in 1..(Len(gate_log) - 1) :
        LET g1 == gate_log[i]
            g2 == gate_log[i + 1]
        IN  (/\ g1.prompt = g2.prompt
             /\ g1.invoked
             /\ Truthy(g1.ret)
             /\ g2.at - g1.at < cache_expiry)
            => (~g2.invoked /\ g2.hit /\ g2.ret = g1.ret)

\* a hit some time after the summary was cached, for a call the chatbot would fail
C10_Witness ==
    \E i \in 1..(Len(gate_log) - 1) :
        /\ gate_log[i].prompt = gate_log[i + 1].prompt
        /\ gate_log[i].invoked
        /\ Truthy(gate_log[i].ret)
        /\ gate_log[i + 1].at > gate_log[i].at
        /\ gate_log[i + 1].at - gate_log[i].at < cache_expiry
        /\ gate_log[i + 1].failed
        /\ gate_log[i + 1].hit

(***************************************************************************)
(* The summarizer gate of flashcard.py: get_cached_summary under            *)
(* @retry(stop_after_attempt, wait_exponential) and @rate_limit, called by  *)
(* several tasks of one process. The clock rl_now counts ticks of 1/calls   *)
(* second, so that min_interval = period / calls is period ticks.           *)
(***************************************************************************)
calls == 3
period == 3
max_retries == 3

Callers == 1..NumCallers

\* rate_limit line 90: min_interval = period / calls, in ticks
min_interval == (period * calls) \div calls

Seconds(n) == n * calls

\* tenacity wait_exponential(multiplier=1, min=4, max=10) after the given attempt
wait_exponential(attempt) ==
    LET exp == 2 ^ (attempt - 1)
    IN  Seconds(IF exp < 4 THEN 4 ELSE IF exp > 10 THEN 10 ELSE exp)

\* tenacity retry(stop=stop_after_attempt(max_retries)): what follows an attempt
retry(raised, attempt) ==
    IF ~raised THEN "return"
    ELSE IF attempt >= max_retries THEN "RetryError"
    ELSE "retry"

LEGACY_PROMPT_PREFIX ==
    <<"Summarize the following text for the back of an Anki flashcard. ",
      "Provide only the summary, enclosed in [[ ]]: ", "\n">>

\* the one text the callers summarize; its cache key stands for hash(prompt)
LegacyCacheKey == <<"summary_", LEGACY_PROMPT_PREFIX \o <<" ">> \o S_A1>>

NoOutcome == [kind |-> "none", ret |-> PyNone, attempts |-> 0, bot_raised |-> FALSE]

\* flashcard.py line 166-175: the end of get_cached_summary once get_summary is over:
\* [raised, ret, cache]
legacy_summary_result(bot, c, t) ==
    IF bot.raises
    THEN \* except Exception: log, return None
         [raised |-> FALSE, ret |-> PyNone, cache |-> c]
    ELSE IF Truthy(bot.value)
    THEN [raised |-> FALSE, ret |-> bot.value,
          cache |-> TTLCacheSet(c, LegacyCacheKey, bot.value, t).cache]
    ELSE [raised |-> FALSE, ret |-> PyNone, cache |-> c]

GateInit ==
    /\ rl_now = min_interval
    /\ last_called = 0
    /\ cpc = [c \in Callers |-> "idle"]
    /\ wake = [c \in Callers |-> 0]
    /\ entry_last = [c \in Callers |-> 0]
    /\ attempts = [c \in Callers |-> 0]
    /\ outcome = [c \in Callers |-> NoOutcome]
    /\ dispatches = <<>>
    /\ overlapped = FALSE
    /\ entered = 0
    /\ lcache = <<>>

\* rate_limit line 99-100 and flashcard.py line 153-167: the dispatch of the gated
\* function, up to its first await
Dispatch(c, read_last, slept, attempt) ==
    /\ last_called' = rl_now
    /\ dispatches' = Append(dispatches,
                            [at |-> rl_now, entry_last |-> read_last, slept |-> slept])
    /\ wake' = [wake EXCEPT ![c] = 0]
    /\ entry_last' = [entry_last EXCEPT ![c] = 0]
    /\ LET cached_summary == TTLCacheGet(lcache, LegacyCacheKey, rl_now \div calls)
       IN  IF Truthy(cached_summary)
           THEN /\ cpc' = [cpc EXCEPT ![c] = "idle"]
                /\ attempts' = [attempts EXCEPT ![c] = 0]
                /\ outcome' = [outcome EXCEPT ![c] =
                                  [kind |-> "returned", ret |-> cached_summary, attempts |-> attempt,
                                   bot_raised |-> FALSE]]
           ELSE /\ cpc' = [cpc EXCEPT ![c] = "running"]
                /\ attempts' = [attempts EXCEPT ![c] = attempt]
                /\ outcome' = [outcome EXCEPT ![c] = NoOutcome]
    /\ UNCHANGED lcache

rate_limit_NoSleep(c, attempt) ==
    Dispatch(c, last_called, FALSE, attempt)

\* rate_limit line 96-100: wrapper(*args, **kwargs)
rate_limit(c, attempt) ==
    LET elapsed == rl_now - last_called
    IN  IF elapsed < min_interval
        THEN /\ cpc' = [cpc EXCEPT ![c] = "sleeping"]
             /\ wake' = [wake EXCEPT ![c] = rl_now + (min_interval - elapsed)]
             /\ entry_last' = [entry_last EXCEPT ![c] = last_called]
             /\ attempts' = [attempts EXCEPT ![c] = attempt]
             /\ outcome' = [outcome EXCEPT ![c] = NoOutcome]
             /\ UNCHANGED <<last_called, dispatches, lcache>>
        ELSE Dispatch(c, last_called, FALSE, attempt)

\* a task calls get_cached_summary: the retry wrapper makes its first attempt
Invoke(c) ==
    /\ cpc[c] = "idle"
    /\ entered < MaxCalls
    /\ entered' = entered + 1
    /\ overlapped' = (overlapped \/ \E o \in Callers \ {c} : cpc[o] # "idle")
    /\ rate_limit(c, 1)
    /\ UNCHANGED rl_now
    /\ UNCHANGED <<pipe_vars, ext_vars>>

\* an asyncio.sleep of the rate limiter or of the retry wrapper is over
Wake(c) ==
    /\ cpc[c] \in {"sleeping", "backoff"}
    /\ rl_now >= wake[c]
    /\ IF cpc[c] = "sleeping"
       THEN Dispatch(c, entry_last[c], TRUE, attempts[c])
       ELSE rate_limit(c, attempts[c] + 1)
    /\ UNCHANGED <<rl_now, overlapped, entered>>
    /\ UNCHANGED <<pipe_vars, ext_vars>>

\* chatbot.get_summary is over: the gated function ends and the retry wrapper decides
ChatbotReturns(c, bot) ==
    /\ cpc[c] = "running"
    /\ LET r == legacy_summary_result(bot, lcache, rl_now \div calls)
           next == retry(r.raised, attempts[c])
       IN  /\ lcache' = r.cache
           /\ IF next = "retry"
              THEN /\ cpc' = [cpc EXCEPT ![c] = "backoff"]
                   /\ wake' = [wake EXCEPT ![c] = rl_now + wait_exponential(attempts[c])]
                   /\ UNCHANGED <<outcome, attempts>>
              ELSE /\ cpc' = [cpc EXCEPT ![c] = "idle"]
                   /\ attempts' = [attempts EXCEPT ![c] = 0]
                   /\ outcome' = [outcome EXCEPT ![c] =
                          [kind |-> IF next = "return" THEN "returned" ELSE "raised",
                           ret |-> r.ret, attempts |-> attempts[c],
                           bot_raised |-> bot.raises]]
                   /\ UNCHANGED wake
    /\ UNCHANGED <<rl_now, last_called, entry_last, dispatches, overlapped, entered>>
    /\ UNCHANGED <<pipe_vars, ext_vars>>

\* time passes
Tick ==
    /\ rl_now < min_interval + MaxRlTime
    /\ rl_now' = rl_now + 1
    /\ UNCHANGED <<last_called, cpc, wake, entry_last, attempts, outcome, dispatches,
                   overlapped, entered, lcache>>
    /\ UNCHANGED <<pipe_vars, ext_vars>>

NextGate ==
    \/ \E c \in Callers : Invoke(c)
    \/ \E c \in Callers : Wake(c)
    \/ \E c \in Callers, bot \in BotOutcomes : ChatbotReturns(c, bot)
    \/ Tick

\* the pipeline is not run
PipeIdle ==
    /\ pc = "idle"
    /\ has_chatbot = TRUE
    /\ has_task_service = FALSE
    /\ total_items = 0
    /\ processed_items = 0
    /\ skipped_items = 0
    /\ item = NoItem
    /\ card = NoCard
    /\ existing = <<>>
    /\ rows = <<>>
    /\ save_calls = 0
    /\ save_raised = FALSE
    /\ update_raised = FALSE
    /\ faults = 0
    /\ updates = <<>>
    /\ result = NoResult
    /\ cache = <<>>
    /\ hashfn = CHOOSE h \in HashFns : TRUE
    /\ now = 0
    /\ gate_log = <<>>

InitGate == PipeIdle /\ GateInit /\ ExtIdle

SpecGate == InitGate /\ [][NextGate]_vars

(***************************************************************************)
(* Properties of the gate, checked under SpecGate                           *)
(***************************************************************************)
Sleeping == {c \in Callers : cpc[c] = "sleeping"}

\* C7: a get_cached_summary call returns None after the chatbot raised only once
\* max_retries attempts have been made.
C7_FailureOnlyAfterMaxRetries ==
    \A c \in Callers :
        (outcome[c].kind = "returned" /\ outcome[c].bot_raised /\ outcome[c].ret = PyNone)
            => outcome[c].attempts = max_retries

\* C8: a call that enters the rate limiter less than min_interval after the last
\* dispatch it reads sleeps until min_interval after it; no dispatch is earlier than
\* that; no call raises and every call made is dispatched or asleep; and when no call
\* enters while another is under way, the k-th dispatch is at least
\* (k - 1) * min_interval after the first.
C8_RateLimiterSuspendsAndSpaces ==
    /\ \A c \in Sleeping : wake[c] = entry_last[c] + min_interval
    /\ \A k \in 1..Len(dispatches) :
          /\ dispatches[k].at >= dispatches[k].entry_last + min_interval
          /\ ~overlapped => dispatches[k].at >= dispatches[1].at + (k - 1) * min_interval
    /\ \A c \in Callers : outcome[c].kind # "raised"
    /\ entered = Len(dispatches) + Cardinality(Sleeping)

\* three calls one after the other, the second and the third made early and suspended,
\* the third dispatched exactly 2 * min_interval after the first
C8_Witness ==
    /\ ~overlapped
    /\ Len(dispatches) >= 3
    /\ dispatches[2].slept
    /\ dispatches[3].slept
    /\ dispatches[3].at = dispatches[1].at + 2 * min_interval

\* C9: any two dispatches of the gated function are at least min_interval apart.
C9_ConcurrentDispatchesSpaced ==
    \A i, j \in 1..Len(dispatches) :
        i < j => dispatches[j].at - dispatches[i].at >= min_interval

(***************************************************************************)
(* The storage backends (src/storage). A Python dict is a function on the   *)
(* keys it holds; a dict whose order is read (a sorted set's members) is a  *)
(* sequence of [member, score] in insertion order. A member is a natural    *)
(* number standing for a str, numbered in the lexicographic order of the    *)
(* strs. An expiry of 0 stands for None and for 0, which "if expiry" treats *)
(* alike. What an operation returns is [kind, v] with v a sequence.         *)
(***************************************************************************)
EmptyDict == [k \in {} |-> 0]

DictPut(f, k, v) == [x \in DOMAIN f \cup {k} |-> IF x = k THEN v ELSE f[x]]

DictPop(f, k) == [x \in DOMAIN f \ {k} |-> f[x]]

\* dict.update(mapping) on a dict of member -> score: a member already present keeps
\* its place and takes the new score, a new member goes to the end
RECURSIVE dict_update(_, _)
dict_update(z, mapping) ==
    IF mapping = <<>> THEN z
    ELSE LET e == Head(mapping)
             at == {i \in 1..Len(z) : z[i].member = e.member}
             z1 == IF at = {} THEN Append(z, e)
                   ELSE [i \in 1..Len(z) |-> IF i \in at THEN e ELSE z[i]]
         IN  dict_update(z1, Tail(mapping))

\* seq[start:stop] of Python
PySlice(seq, start, stop) ==
    LET n == Len(seq)
        lo == IF start < 0 THEN (IF n + start < 0 THEN 0 ELSE n + start)
              ELSE (IF start > n THEN n ELSE start)
        hi == IF stop < 0 THEN (IF n + stop < 0 THEN 0 ELSE n + stop)
              ELSE (IF stop > n THEN n ELSE stop)
    IN  IF lo < hi THEN SubSeq(seq, lo + 1, hi) ELSE <<>>

Indexed(z) == [i \in 1..Len(z) |-> [member |-> z[i].member, score |-> z[i].score, idx |-> i]]

Members(entries) == [i \in 1..Len(entries) |-> entries[i].member]

\* sorted(..., key=lambda x: x[1], reverse=True) is stable: equal scores keep their order
ByScoreDescStable(a, b) == a.score > b.score \/ (a.score = b.score /\ a.idx < b.idx)

sorted_items_Unsorted(z) == Indexed(z)

\* memory.py line 51, 56: the items of a sorted set, highest score first
sorted_items(z) == SortSeq(Indexed(z), ByScoreDescStable)

RetNone == [kind |-> "None", v |-> <<>>]
RetValue(x) == [kind |-> "value", v |-> <<x>>]
RetList(l) == [kind |-> "list", v |-> l]
RetRaised(exc) == [kind |-> "raised", v |-> <<exc>>]

NewDictionaryBackend == [data |-> EmptyDict, expiry |-> EmptyDict, sorted_sets |-> EmptyDict]

\* memory.py line 27-30
Dict_set(d, key, value, expiry, t) ==
    [store |-> [d EXCEPT !.data = DictPut(d.data, key, value),
                         !.expiry = IF expiry # 0 THEN DictPut(d.expiry, key, t + expiry)
                                    ELSE d.expiry],
     ret |-> RetNone]

\* memory.py line 32-37
Dict_get(d, key, t) ==
    IF key \in DOMAIN d.expiry /\ t > d.expiry[key]
    THEN [store |-> [d EXCEPT !.data = DictPop(d.data, key), !.expiry = DictPop(d.expiry, key)],
          ret |-> RetNone]
    ELSE [store |-> d,
          ret |-> IF key \in DOMAIN d.data THEN RetValue(d.data[key]) ELSE RetNone]

\* memory.py line 39-41
Dict_delete(d, key) ==
    [store |-> [d EXCEPT !.data = DictPop(d.data, key), !.expiry = DictPop(d.expiry, key)],
     ret |-> RetNone]

\* memory.py line 43-46
Dict_zadd(d, key, mapping) ==
    LET z == IF key \in DOMAIN d.sorted_sets THEN d.sorted_sets[key] ELSE <<>>
    IN  [store |-> [d EXCEPT !.sorted_sets = DictPut(d.sorted_sets, key, dict_update(z, mapping))],
         ret |-> RetNone]

\* memory.py line 48-52
Dict_zrevrange(d, key, start, end) ==
    [store |-> d,
     ret |-> IF key \notin DOMAIN d.sorted_sets THEN RetList(<<>>)
             ELSE RetList(Members(PySlice(sorted_items(d.sorted_sets[key]), start, end + 1)))]

\* memory.py line 54-59
Dict_zremrangebyrank(d, key, start, end) ==
    IF key \notin DOMAIN d.sorted_sets THEN [store |-> d, ret |-> RetNone]
    ELSE LET z == d.sorted_sets[key]
             to_remove == PySlice(sorted_items(z), start, end + 1)
             gone == {to_remove[i].member : i \in 1..Len(to_remove)}
         IN  [store |-> [d EXCEPT !.sorted_sets =
                            DictPut(d.sorted_sets, key, SelectSeq(z, LAMBDA e : e.member \notin gone))],
              ret |-> RetNone]

\* memory.py line 61-62
Dict_expire(d, key, seconds, t) ==
    [store |-> [d EXCEPT !.expiry = DictPut(d.expiry, key, t + seconds)], ret |-> RetNone]

\* memory.py line 20-24: one round of the background task
Dict_cleanup_expired(d, t) ==
    LET expired_keys == {key \in DOMAIN d.expiry : d.expiry[key] <= t}
    IN  [d EXCEPT !.data = [k \in DOMAIN d.data \ expired_keys |-> d.data[k]],
                  !.expiry = [k \in DOMAIN d.expiry \ expired_keys |-> d.expiry[k]]]

(***************************************************************************)
(* json and the Redis server the RedisBackend talks to. A Python value is   *)
(* [kind, v] with kind str, tuple, list or dict; a JSON text is [text].     *)
(***************************************************************************)
\* json.dumps: a tuple is written as an array
json_dumps(value) ==
    [text |-> IF value.kind = "tuple" THEN [value EXCEPT !.kind = "list"] ELSE value]

\* json.loads: an array is read as a list
json_loads(s) == s.text

NewRedis == [strings |-> EmptyDict, zsets |-> EmptyDict, deadline |-> EmptyDict]

RedisKeys(r) == DOMAIN r.strings \cup DOMAIN r.zsets

RedisDrop(r, keys) ==
    [strings |-> [k \in DOMAIN r.strings \ keys |-> r.strings[k]],
     zsets |-> [k \in DOMAIN r.zsets \ keys |-> r.zsets[k]],
     deadline |-> [k \in DOMAIN r.deadline \ keys |-> r.deadline[k]]]

\* a key is gone from its deadline on
RedisLive(r, t) == RedisDrop(r, {k \in DOMAIN r.deadline : r.deadline[k] <= t})

\* the members of a sorted set by rank: lowest score first, equal scores by member
ByRank(a, b) == a.score < b.score \/ (a.score = b.score /\ a.member < b.member)

ranked(z) == SortSeq(Indexed(z), ByRank)

Reverse(seq) == [i \in 1..Len(seq) |-> seq[Len(seq) + 1 - i]]

\* the elements start..stop of a sequence, counted from 0, negative from the end
RedisRange(seq, start, stop) ==
    LET n == Len(seq)
        lo0 == IF start < 0 THEN n + start ELSE start
        hi0 == IF stop < 0 THEN n + stop ELSE stop
        lo == IF lo0 < 0 THEN 0 ELSE lo0
        hi == IF hi0 >= n THEN n - 1 ELSE hi0
    IN  IF lo > hi \/ lo >= n THEN <<>> ELSE SubSeq(seq, lo + 1, hi + 1)

SETEX(r0, key, seconds, text, t) ==
    LET r == RedisLive(r0, t)
    IN  IF seconds <= 0
        THEN [store |-> r, ret |-> RetRaised("ResponseError")]
        ELSE [store |-> [strings |-> DictPut(r.strings, key, text),
                         zsets |-> DictPop(r.zsets, key),
                         deadline |-> DictPut(r.deadline, key, t + seconds)],
              ret |-> RetNone]

SET(r0, key, text, t) ==
    LET r == RedisLive(r0, t)
    IN  [store |-> [strings |-> DictPut(r.strings, key, text),
                    zsets |-> DictPop(r.zsets, key),
                    deadline |-> DictPop(r.deadline, key)],
         ret |-> RetNone]

GET(r0, key, t) ==
    LET r == RedisLive(r0, t)
    IN  [store |-> r,
         ret |-> IF key \in DOMAIN r.zsets THEN RetRaised("ResponseError")
                 ELSE IF key \in DOMAIN r.strings THEN RetValue(r.strings[key])
                 ELSE RetNone]

DEL(r0, key, t) == [store |-> RedisDrop(RedisLive(r0, t), {key}), ret |-> RetNone]

ZADD(r0, key, mapping, t) ==
    LET r == RedisLive(r0, t)
        z == IF key \in DOMAIN r.zsets THEN r.zsets[key] ELSE <<>>
    IN  IF key \in DOMAIN r.strings
        THEN [store |-> r, ret |-> RetRaised("ResponseError")]
        ELSE [store |-> [r EXCEPT !.zsets = DictPut(r.zsets, key, dict_update(z, mapping))],
              ret |-> RetNone]

ZREVRANGE(r0, key, start, stop, t) ==
    LET r == RedisLive(r0, t)
    IN  [store |-> r,
         ret |-> IF key \in DOMAIN r.strings THEN RetRaised("ResponseError")
                 ELSE IF key \notin DOMAIN r.zsets THEN RetList(<<>>)
                 ELSE RetList(Members(RedisRange(Reverse(ranked(r.zsets[key])), start, stop)))]

ZREMRANGEBYRANK(r0, key, start, stop, t) ==
    LET r == RedisLive(r0, t)
    IN  IF key \in DOMAIN r.strings THEN [store |-> r, ret |-> RetRaised("ResponseError")]
        ELSE IF key \notin DOMAIN r.zsets THEN [store |-> r, ret |-> RetNone]
        ELSE LET z == r.zsets[key]
                 to_remove == RedisRange(ranked(z), start, stop)
                 gone == {to_remove[i].member : i \in 1..Len(to_remove)}
                 left == SelectSeq(z, LAMBDA e : e.member \notin gone)
             IN  [store |-> IF left = <<>> THEN RedisDrop(r, {key})
                            ELSE [r EXCEPT !.zsets = DictPut(r.zsets, key, left)],
                  ret |-> RetNone]

EXPIRE(r0, key, seconds, t) ==
    LET r == RedisLive(r0, t)
    IN  [store |-> IF key \notin RedisKeys(r) THEN r
                   ELSE IF seconds <= 0 THEN RedisDrop(r, {key})
                   ELSE [r EXCEPT !.deadline = DictPut(r.deadline, key, t + seconds)],
         ret |-> RetNone]

\* redis.py line 15-19
Redis_set(r, key, value, expiry, t) ==
    IF expiry # 0 THEN SETEX(r, key, expiry, json_dumps(value), t)
    ELSE SET(r, key, json_dumps(value), t)

\* redis.py line 21-23
Redis_get(r, key, t) ==
    LET got == GET(r, key, t)
    IN  IF got.ret.kind = "value"
        THEN [store |-> got.store, ret |-> RetValue(json_loads(got.ret.v[1]))]
        ELSE got

\* redis.py line 25-26
Redis_delete(r, key, t) == DEL(r, key, t)

\* redis.py line 28-29
Redis_zadd(r, key, mapping, t) == ZADD(r, key, mapping, t)

\* redis.py line 31-32
Redis_zrevrange(r, key, start, end, t) == ZREVRANGE(r, key, start, end, t)

\* redis.py line 34-35
Redis_zremrangebyrank(r, key, start, end, t) == ZREMRANGEBYRANK(r, key, start, end, t)

\* redis.py line 37-38
Redis_expire(r, key, seconds, t) == EXPIRE(r, key, seconds, t)

(***************************************************************************)
(* The two backends side by side: every operation is made on a              *)
(* DictionaryBackend and on a RedisBackend at the same time.                *)
(***************************************************************************)
StrKeys == {"k1"}
ZKeys == {"z1"}
StoreKeys == StrKeys \cup ZKeys

StoreValues == {[kind |-> "str", v |-> "v1"], [kind |-> "tuple", v |-> "v2"]}

Expiries == {0, ShortExpiry}

\* dicts of member -> score: one member, or the three members A: 1, B: 3, C: 2
Mappings ==
    {<<[member |-> m, score |-> sc]>> : m \in {1, 2}, sc \in {0, 2}}
        \cup {<<[member |-> 1, score |-> 1], [member |-> 2, score |-> 3],
                [member |-> 3, score |-> 2]>>}

Ranges == {<<0, 2>>, <<1, 1>>, <<0, -1>>}

InitBackends ==
    /\ sclock = 0
    /\ dstore = NewDictionaryBackend
    /\ rstore = NewRedis
    /\ sres = [op |-> <<"init">>, d |-> RetNone, r |-> RetNone, at |-> 0]
    /\ sops = 0
    /\ sset = EmptyDict

\* both backends make the operation; d and r are its [store, ret] on each
Both(op, d, r, writes) ==
    /\ writes => sops < MaxStoreOps
    /\ sops' = IF writes THEN sops + 1 ELSE sops
    /\ dstore' = d.store
    /\ rstore' = r.store
    /\ sres' = [op |-> op, d |-> d.ret, r |-> r.ret, at |-> sclock]
    /\ UNCHANGED sclock
    /\ UNCHANGED <<pipe_vars, gate_vars, task_vars>>

StoreSet(key, value, expiry) ==
    /\ Both(<<"set", key, expiry>>, Dict_set(dstore, key, value, expiry, sclock),
            Redis_set(rstore, key, value, expiry, sclock), TRUE)
    /\ sset' = DictPut(sset, key, [value |-> value, expiry |-> expiry, at |-> sclock])

StoreGet(key) ==
    /\ Both(<<"get", key>>, Dict_get(dstore, key, sclock), Redis_get(rstore, key, sclock), FALSE)
    /\ UNCHANGED sset

StoreDelete(key) ==
    /\ Both(<<"delete", key>>, Dict_delete(dstore, key), Redis_delete(rstore, key, sclock), TRUE)
    /\ sset' = DictPop(sset, key)

StoreZadd(key, mapping) ==
    /\ Both(<<"zadd", key>>, Dict_zadd(dstore, key, mapping),
            Redis_zadd(rstore, key, mapping, sclock), TRUE)
    /\ UNCHANGED sset

StoreZrevrange(key, start, end) ==
    /\ Both(<<"zrevrange", key, start, end>>, Dict_zrevrange(dstore, key, start, end),
            Redis_zrevrange(rstore, key, start, end, sclock), FALSE)
    /\ UNCHANGED sset

StoreZremrangebyrank(key, start, end) ==
    /\ Both(<<"zremrangebyrank", key, start, end>>,
            Dict_zremrangebyrank(dstore, key, start, end),
            Redis_zremrangebyrank(rstore, key, start, end, sclock), TRUE)
    /\ UNCHANGED sset

StoreExpire(key, seconds) ==
    /\ Both(<<"expire", key, seconds>>, Dict_expire(dstore, key, seconds, sclock),
            Redis_expire(rstore, key, seconds, sclock), TRUE)
    /\ sset' = IF key \in DOMAIN sset
               THEN DictPut(sset, key, [sset[key] EXCEPT !.expiry = seconds, !.at = sclock])
               ELSE sset

\* memory.py line 17-25: the background task of the DictionaryBackend makes a round
StoreCleanup ==
    /\ dstore' = Dict_cleanup_expired(dstore, sclock)
    /\ dstore' # dstore
    /\ UNCHANGED <<sclock, rstore, sres, sops, sset>>
    /\ UNCHANGED <<pipe_vars, gate_vars, task_vars>>

\* a second passes
StoreTick ==
    /\ sclock < MaxStoreTime
    /\ sclock' = sclock + 1
    /\ UNCHANGED <<dstore, rstore, sres, sops, sset>>
    /\ UNCHANGED <<pipe_vars, gate_vars, task_vars>>

NextBackends ==
    \/ \E key \in StrKeys, value \in StoreValues, expiry \in Expiries : StoreSet(key, value, expiry)
    \/ \E key \in StrKeys : StoreGet(key)
    \/ \E key \in StoreKeys : StoreDelete(key)
    \/ \E key \in ZKeys, mapping \in Mappings : StoreZadd(key, mapping)
    \/ \E key \in ZKeys, range \in Ranges : StoreZrevrange(key, range[1], range[2])
    \/ \E key \in ZKeys, range \in Ranges : StoreZremrangebyrank(key, range[1], range[2])
    \/ \E key \in StoreKeys : StoreExpire(key, ShortExpiry)
    \/ StoreCleanup
    \/ StoreTick

\* neither the pipeline nor the gate is run
PipeGateIdle == PipeIdle /\ GateIdle

InitStore == PipeGateIdle /\ InitBackends /\ TaskIdle /\ WsIdle /\ JobIdle /\ ProcIdle

SpecBackends == InitStore /\ [][NextBackends]_vars

(***************************************************************************)
(* Properties of the backends, checked under SpecBackends                   *)
(***************************************************************************)
\* C18: every operation returns the same on the DictionaryBackend and on the
\* RedisBackend.
C18_BackendsAgree ==
    /\ sres.d.kind = sres.r.kind
    /\ sres.d.v = sres.r.v

ScoreIn(z, m) == z[CHOOSE i \in 1..Len(z) : z[i].member = m].score

\* C19: on the DictionaryBackend a sorted set holds each member once, and
\* zrevrange(key, start, end) with 0 <= start <= end returns the members at the places
\* start..end, counted from 0, of the set in descending score order: after
\* zadd(key, {A: 1, B: 3, C: 2}), zrevrange(key, 0, 2) is [B, C, A], and a member whose
\* score a later zadd replaced is placed by its new score.
C19_ZrevrangeDescendingInclusive ==
    /\ \A key \in DOMAIN dstore.sorted_sets :
          LET z == dstore.sorted_sets[key]
          IN  \A i, j \in 1..Len(z) : i # j => z[i].member # z[j].member
    /\ (sres.op[1] = "zrevrange" /\ sres.op[3] >= 0 /\ sres.op[4] >= sres.op[3]) =>
          LET key == sres.op[2]
              start == sres.op[3]
              end == sres.op[4]
              z == IF key \in DOMAIN dstore.sorted_sets THEN dstore.sorted_sets[key] ELSE <<>>
              n == Len(z)
              got == sres.d.v
              last == IF end >= n THEN n - 1 ELSE end
          IN  /\ sres.d.kind = "list"
              /\ Len(got) = IF start >= n THEN 0 ELSE last - start + 1
              /\ \A i \in 1..Len(got) :
                    /\ \E k \in 1..n : z[k].member = got[i]
                    /\ Cardinality({k \in 1..n : z[k].score > ScoreIn(z, got[i])}) <= start + i - 1
                    /\ Cardinality({k \in 1..n : z[k].score >= ScoreIn(z, got[i])}) >= start + i
              /\ \A i, j \in 1..Len(got) :
                    i < j => (got[i] # got[j] /\ ScoreIn(z, got[i]) >= ScoreIn(z, got[j]))
              /\ (start = 0 /\ end = 2 /\ n = 3 /\ \A k \in 1..3 : z[k].score = <<1, 3, 2>>[z[k].member])
                    => got = <<2, 3, 1>>

\* after zadd {A: 1, B: 3, C: 2} and zadd {B: 0}, zrevrange(0, 2) is [C, A, B]
C19_Witness ==
    /\ sres.op[1] = "zrevrange"
    /\ sres.op[3] = 0
    /\ sres.op[4] = 2
    /\ "z1" \in DOMAIN dstore.sorted_sets
    /\ dstore.sorted_sets["z1"] = <<[member |-> 1, score |-> 1], [member |-> 2, score |-> 0],
                                    [member |-> 3, score |-> 2]>>
    /\ sres.d.v = <<3, 1, 2>>

\* C20: on the DictionaryBackend, get(key) returns the value of the last set as long as
\* that set gave no expiry or its expiry is not over, and None once its expiry is over.
C20_SetOverwritesTTL ==
    (sres.op[1] = "get" /\ sres.op[2] \in DOMAIN sset) =>
        LET e == sset[sres.op[2]]
        IN  /\ (e.expiry = 0 \/ sres.at - e.at < e.expiry) =>
                  (sres.d.kind = "value" /\ sres.d.v = <<e.value>>)
            /\ (e.expiry # 0 /\ sres.at - e.at > e.expiry) => sres.d.kind = "None"

(***************************************************************************)
(* TaskService (src/domain/task/service.py): the task record of one task.   *)
(* A record is a function on its field names; the documents hold str, int   *)
(* and bool values, which json writes and reads back unchanged.             *)
(***************************************************************************)
task_ttl == 86400

USER_ID == "u1"
TASK_KEY == "task:u1:t1"

TaskCallers == {"c1", "c2"}

\* flashcard_routes.py line 173-180
InitialData ==
    [status |-> "initiated", message |-> "Starting flashcard generation", progress |-> 0,
     notion_page |-> "page1", use_chatbot |-> TRUE]

\* the progress, status and message of update_task_progress calls
ProgressUpdates ==
    {[progress |-> 20, status |-> "processing", message |-> "Creating flashcards..."],
     [progress |-> 100, status |-> "completed", message |-> "done"]}

UpdatedFields == {"progress", "status", "message", "timestamp", "user_id"}

PyDict(d) == [kind |-> "dict", v |-> d]

\* the times at which something happens
TaskTimes == {a * HalfDay : a \in 0..MaxHalfDays}

\* service.py line 25: {**initial_data, "timestamp": ..., "user_id": user_id}
create_task_data(initial_data, t) == [timestamp |-> t, user_id |-> USER_ID] @@ initial_data

task_data_overwrite(task_data, fields, t) == [timestamp |-> t, user_id |-> USER_ID] @@ fields

\* service.py line 49-57: task_data.update({...})
task_data_update(task_data, fields, t) ==
    ([timestamp |-> t, user_id |-> USER_ID] @@ fields) @@ task_data

client_setex_Drop(b, d, r, key, seconds, text, t) == [d |-> d, r |-> r, ret |-> RetNone]

\* self.redis.setex: a DictionaryBackend has no setex
client_setex(b, d, r, key, seconds, text, t) ==
    IF b = "redis"
    THEN LET w == SETEX(r, key, seconds, text, t) IN [d |-> d, r |-> w.store, ret |-> w.ret]
    ELSE [d |-> d, r |-> r, ret |-> RetRaised("AttributeError")]

\* self.redis.get
client_get(b, d, r, key, t) ==
    IF b = "redis"
    THEN LET g == GET(r, key, t) IN [d |-> d, r |-> g.store, ret |-> g.ret]
    ELSE LET g == Dict_get(d, key, t) IN [d |-> g.store, r |-> r, ret |-> g.ret]

Lock_locked_Never(l) == FALSE

\* asyncio.Lock.locked()
Lock_locked(l) == l # ""

NoCall == [pc |-> "idle", op |-> "", fields |-> EmptyDict, task_data |-> EmptyDict]

NeverWrote == [doc |-> EmptyDict, at |-> -1, tried |-> -1]

TaskRes(op, kind, v, code) ==
    [op |-> op, kind |-> kind, v |-> v, code |-> code, arg |-> <<>>, at |-> sclock]

NoHistory == [count |-> 0, faults |-> 0, missing |-> {}, first |-> -1, last |-> -1]

InitTask ==
    /\ backend \in {"redis", "dict"}
    /\ sclock = 0
    /\ dstore = NewDictionaryBackend
    /\ rstore = NewRedis
    /\ sres = <<>>
    /\ sops = 0
    /\ sset = <<>>
    /\ tlock = ""
    /\ tcaller = [c \in TaskCallers |-> NoCall]
    /\ tcalls = 0
    /\ texpected = EmptyDict
    /\ twrote = NeverWrote
    /\ tkept = FALSE
    /\ tres = [op |-> "", kind |-> "", v |-> <<>>, code |-> 0, arg |-> <<>>, at |-> 0]
    /\ hist = NoHistory

TaskFrame == UNCHANGED <<pipe_vars, gate_vars, backend, sres, sops, sset, hist, ws_vars, job, proc_vars>>

\* create_task line 22-25: task_data is built before the lock is requested
CreateTask(c) ==
    /\ tcaller[c].pc = "idle"
    /\ tcalls < MaxTaskCalls
    /\ tcalls' = tcalls + 1
    /\ tcaller' = [tcaller EXCEPT ![c] =
           [pc |-> "acquire", op |-> "create", fields |-> InitialData,
            task_data |-> create_task_data(InitialData, sclock)]]
    /\ UNCHANGED <<sclock, dstore, rstore, tlock, texpected, twrote, tkept, tres>>
    /\ TaskFrame

\* update_task_progress line 35-46: the call, up to the lock request
UpdateTaskProgress(c, fields) ==
    /\ tcaller[c].pc = "idle"
    /\ tcalls < MaxTaskCalls
    /\ tcalls' = tcalls + 1
    /\ tcaller' = [tcaller EXCEPT ![c] =
           [pc |-> "acquire", op |-> "update", fields |-> fields, task_data |-> EmptyDict]]
    /\ UNCHANGED <<sclock, dstore, rstore, tlock, texpected, twrote, tkept, tres>>
    /\ TaskFrame

\* async with self._lock (line 28 and 47)
Acquire(c) ==
    /\ tcaller[c].pc = "acquire"
    /\ ~Lock_locked(tlock)
    /\ tlock' = c
    /\ tcaller' = [tcaller EXCEPT ![c].pc = IF tcaller[c].op = "create" THEN "write" ELSE "read"]
    /\ UNCHANGED <<sclock, dstore, rstore, tcalls, texpected, twrote, tkept, tres>>
    /\ TaskFrame

\* update_task_progress line 48-57: read the record and merge the new fields
ReadMerge(c) ==
    /\ tcaller[c].pc = "read"
    /\ LET g == client_get(backend, dstore, rstore, TASK_KEY, sclock)
           found == g.ret.kind = "value"
           existing_data == IF found THEN json_loads(g.ret.v[1]).v ELSE EmptyDict
       IN /\ dstore' = g.d
          /\ rstore' = g.r
          /\ tcaller' = [tcaller EXCEPT ![c].pc = "write",
                 ![c].task_data = task_data_update(existing_data, tcaller[c].fields, sclock)]
          /\ texpected' = task_data_update(IF found THEN texpected ELSE EmptyDict,
                                           tcaller[c].fields, sclock)
          /\ tkept' = (tkept /\ found)
    /\ UNCHANGED <<sclock, tlock, tcalls, twrote, tres>>
    /\ TaskFrame

\* line 29-33 and line 59-60: setex under the lock, then the lock is released;
\* an exception becomes HTTPException(500) (line 31-33 and 68-70)
WriteRelease(c) ==
    /\ tcaller[c].pc = "write"
    /\ LET w == client_setex(backend, dstore, rstore, TASK_KEY, task_ttl,
                             json_dumps(PyDict(tcaller[c].task_data)), sclock)
           ok == w.ret.kind # "raised"
           create == tcaller[c].op = "create"
       IN /\ dstore' = w.d
          /\ rstore' = w.r
          /\ twrote' = IF ok THEN [doc |-> tcaller[c].task_data, at |-> sclock, tried |-> sclock]
                       ELSE [twrote EXCEPT !.tried = sclock]
          /\ texpected' = IF ok /\ create THEN tcaller[c].task_data ELSE texpected
          /\ tkept' = IF ok /\ create THEN TRUE ELSE tkept
          /\ tcaller' = [tcaller EXCEPT ![c] =
                 IF ok /\ ~create THEN [@ EXCEPT !.pc = "send"] ELSE NoCall]
          /\ tres' = IF ok THEN tres ELSE TaskRes(tcaller[c].op, "raised", <<>>, 500)
    /\ tlock' = ""
    /\ UNCHANGED <<sclock, tcalls>>
    /\ TaskFrame

\* update_task_progress line 62-70: the websocket message, outside the lock, when no
\* websocket is registered
SendProgress(c) ==
    /\ tcaller[c].pc = "send"
    /\ tcaller' = [tcaller EXCEPT ![c] = NoCall]
    /\ UNCHANGED <<sclock, dstore, rstore, tlock, tcalls, texpected, twrote, tkept, tres>>
    /\ TaskFrame

\* get_task_status line 72-87
GetTaskStatus ==
    /\ LET g == client_get(backend, dstore, rstore, TASK_KEY, sclock)
       IN /\ dstore' = g.d
          /\ rstore' = g.r
          /\ tres' = IF g.ret.kind = "value"
                     THEN TaskRes("get", "returned", <<json_loads(g.ret.v[1]).v>>, 200)
                     ELSE TaskRes("get", "raised", <<>>, 404)
    /\ UNCHANGED <<sclock, tlock, tcaller, tcalls, texpected, twrote, tkept>>
    /\ TaskFrame

\* time passes
TaskElapse(t) ==
    /\ t > sclock
    /\ sclock' = t
    /\ UNCHANGED <<dstore, rstore, tlock, tcaller, tcalls, texpected, twrote, tkept, tres>>
    /\ TaskFrame

NextTask ==
    \/ \E c \in TaskCallers : CreateTask(c)
    \/ \E c \in TaskCallers, fields \in ProgressUpdates : UpdateTaskProgress(c, fields)
    \/ \E c \in TaskCallers : Acquire(c)
    \/ \E c \in TaskCallers : ReadMerge(c)
    \/ \E c \in TaskCallers : WriteRelease(c)
    \/ \E c \in TaskCallers : SendProgress(c)
    \/ GetTaskStatus
    \/ \E t \in TaskTimes : TaskElapse(t)

InitTaskService == PipeGateIdle /\ InitTask /\ WsIdle /\ JobIdle /\ ProcIdle

SpecTask == InitTaskService /\ [][NextTask]_vars

\* the task record as Redis holds it now
TaskAlive == backend = "redis" /\ TASK_KEY \in DOMAIN RedisLive(rstore, sclock).strings

StoredTask == json_loads(rstore.strings[TASK_KEY]).v

InSection(c) == tcaller[c].pc \in {"read", "write"}

\* C12: as long as the record created by create_task has not expired, every
\* field of initial_data that update_task_progress does not set is still in
\* the stored record with its initial value.
C12_UpdateMergesIntoRecord ==
    (TaskAlive /\ tkept) =>
        \A f \in DOMAIN InitialData \ UpdatedFields :
            f \in DOMAIN StoredTask /\ StoredTask[f] = InitialData[f]

C12_Witness ==
    /\ TaskAlive
    /\ tkept
    /\ StoredTask.status = "completed"
    /\ StoredTask.progress = 100
    /\ StoredTask.notion_page = "page1"
    /\ \A c \in TaskCallers : tcaller[c].pc = "idle"

\* C13: the read-modify-write sections of concurrent create_task and
\* update_task_progress calls never overlap, and when no call is inside its
\* section the stored record is the one obtained by applying the calls one
\* after the other in the order they took the lock.
C13_NoLostUpdate ==
    /\ \A c1, c2 \in TaskCallers : (InSection(c1) /\ InSection(c2)) => c1 = c2
    /\ ((\A c \in TaskCallers : ~InSection(c)) /\ TaskAlive) => StoredTask = texpected

C13_Witness ==
    /\ \E c1, c2 \in TaskCallers :
        /\ tcaller[c1].pc = "write" /\ tcaller[c1].op = "update"
        /\ tcaller[c2].pc = "acquire" /\ tcaller[c2].op = "create"

\* C14: get_task_status returns the stored record when create_task or
\* update_task_progress last ran for the key less than 24 hours before the
\* call, and raises 404 when none ever ran or the last ran more than 24 hours
\* before.
C14_StatusIffWrittenWithinDay ==
    [][(tres' # tres /\ tres'.op = "get") =>
          /\ (twrote.tried >= 0 /\ sclock - twrote.tried < task_ttl) =>
                 (tres'.kind = "returned" /\ tres'.v = <<twrote.doc>>)
          /\ (twrote.tried < 0 \/ sclock - twrote.tried > task_ttl) =>
                 (tres'.kind = "raised" /\ tres'.code = 404)]_vars

(***************************************************************************)
(* TaskService: the history of one user (service.py line 89-121).           *)
(***************************************************************************)
history_ttl == 2592000
default_limit == 50

\* service.py line 99-100: "Trim history to last 100 entries", zremrangebyrank(key, 0, -101);
\* the model keeps history_cap entries in place of 100
trim_stop == 0 - (history_cap + 1)

HISTORY_KEY == "history:u1"

\* datetime.isoformat(): the text of a time; valid is FALSE for a text that is no date
isoformat(t) == [iso |-> t, valid |-> TRUE]

BadTimestamp == [iso |-> 0, valid |-> FALSE]

\* datetime.fromisoformat(text).timestamp()
fromisoformat_timestamp(text) ==
    IF text.valid THEN [kind |-> "value", v |-> text.iso] ELSE [kind |-> "raised", v |-> 0]

\* flashcard_routes.py line 105-114: the details of the n-th finished job
HistoryDetails(n, valid) ==
    [task_id |-> n, notion_page |-> "page1", status |-> "completed", message |-> "done",
     timestamp |-> IF valid THEN isoformat(n) ELSE BadTimestamp]

\* the ways a store operation of add_to_history can fail
HistFaults == {"none", "zadd", "trim", "expire"}

\* the limits of get_user_history
Limits == {0, 1, 2, default_limit}

client_zadd(b, d, r, key, mapping, t) ==
    IF b = "redis"
    THEN LET w == ZADD(r, key, mapping, t) IN [d |-> d, r |-> w.store, ret |-> w.ret]
    ELSE LET w == Dict_zadd(d, key, mapping) IN [d |-> w.store, r |-> r, ret |-> w.ret]

client_zremrangebyrank(b, d, r, key, start, stop, t) ==
    IF b = "redis"
    THEN LET w == ZREMRANGEBYRANK(r, key, start, stop, t)
         IN  [d |-> d, r |-> w.store, ret |-> w.ret]
    ELSE LET w == Dict_zremrangebyrank(d, key, start, stop)
         IN  [d |-> w.store, r |-> r, ret |-> w.ret]

client_expire(b, d, r, key, seconds, t) ==
    IF b = "redis"
    THEN LET w == EXPIRE(r, key, seconds, t) IN [d |-> d, r |-> w.store, ret |-> w.ret]
    ELSE LET w == Dict_expire(d, key, seconds, t) IN [d |-> w.store, r |-> r, ret |-> w.ret]

client_zrevrange(b, d, r, key, start, stop, t) ==
    IF b = "redis"
    THEN LET w == ZREVRANGE(r, key, start, stop, t) IN [d |-> d, r |-> w.store, ret |-> w.ret]
    ELSE LET w == Dict_zrevrange(d, key, start, stop) IN [d |-> w.store, r |-> r, ret |-> w.ret]

\* a store operation that fails leaves the store as it was
Faulty(before, after, failed) ==
    IF failed THEN [d |-> before.d, r |-> before.r, ret |-> RetRaised("ConnectionError")]
    ELSE after

history_except_Reraise(ret) == ret

\* service.py line 105-107: except Exception: logger.error(...), nothing raised
history_except(ret) == RetNone

\* service.py line 93-103: the try body of add_to_history
add_to_history_try(b, d, r, task_details, fault, t) ==
    LET s0 == [d |-> d, r |-> r, ret |-> RetNone]
        timestamp == fromisoformat_timestamp(task_details.timestamp)
    IN  IF timestamp.kind = "raised" THEN [s0 EXCEPT !.ret = RetRaised("ValueError")]
        ELSE
        LET mapping == <<[member |-> json_dumps(PyDict(task_details)), score |-> timestamp.v]>>
            s1 == Faulty(s0, client_zadd(b, d, r, HISTORY_KEY, mapping, t), fault = "zadd")
        IN  IF s1.ret.kind = "raised" THEN s1
            ELSE
            LET s2 == Faulty(s1, client_zremrangebyrank(b, s1.d, s1.r, HISTORY_KEY, 0, trim_stop, t),
                             fault = "trim")
            IN  IF s2.ret.kind = "raised" THEN s2
                ELSE Faulty(s2, client_expire(b, s2.d, s2.r, HISTORY_KEY, history_ttl, t),
                            fault = "expire")

\* service.py line 89-107
add_to_history(b, d, r, task_details, fault, t) ==
    LET o == add_to_history_try(b, d, r, task_details, fault, t)
    IN  IF o.ret.kind = "raised" THEN [o EXCEPT !.ret = history_except(o.ret)] ELSE o

HistRes(op, kind, v, code, arg) ==
    [op |-> op, kind |-> kind, v |-> v, code |-> code, arg |-> arg, at |-> sclock]

HistFrame == UNCHANGED <<pipe_vars, gate_vars, backend, sres, sops, sset,
                         tlock, tcaller, tcalls, texpected, twrote, tkept, ws_vars, job, proc_vars>>

\* the route creates the task record before the job runs (flashcard_routes.py line 170-190)
JobCreateTask == hist.count = 0 /\ tcalls = 0 /\ CreateTask("c1")

JobAcquire == hist.count = 0 /\ Acquire("c1")

JobWriteRelease == hist.count = 0 /\ WriteRelease("c1")

\* add_to_history for the next finished job; a failing store operation is an
\* outcome of the Redis connection, a bad timestamp an input
AddToHistory(fault, valid) ==
    /\ hist.count < MaxAppends
    /\ (fault # "none" \/ ~valid) => hist.faults < MaxHistFaults
    /\ fault # "none" => (valid /\ backend = "redis")
    /\ LET n == hist.count + 1
           o == add_to_history(backend, dstore, rstore, HistoryDetails(n, valid), fault, sclock)
       IN /\ dstore' = o.d
          /\ rstore' = o.r
          /\ tres' = HistRes("add", IF o.ret.kind = "raised" THEN "raised" ELSE "returned",
                             <<>>, 0, <<IF valid THEN fault ELSE "parse">>)
          /\ UNCHANGED sclock
          /\ hist' = [count |-> n,
                      faults |-> hist.faults + (IF fault # "none" \/ ~valid THEN 1 ELSE 0),
                      missing |-> hist.missing \cup (IF fault = "zadd" \/ ~valid THEN {n} ELSE {}),
                      first |-> IF hist.count = 0 THEN sclock ELSE hist.first,
                      last |-> sclock]
    /\ HistFrame

\* get_user_history line 109-121
GetUserHistory(limit) ==
    /\ LET o == client_zrevrange(backend, dstore, rstore, HISTORY_KEY, 0, limit - 1, sclock)
       IN /\ dstore' = o.d
          /\ rstore' = o.r
          /\ tres' = IF o.ret.kind = "raised" THEN HistRes("history", "raised", <<>>, 500, <<limit>>)
                     ELSE HistRes("history", "returned",
                                  [i \in 1..Len(o.ret.v) |-> json_loads(o.ret.v[i]).v], 200, <<limit>>)
    /\ UNCHANGED <<hist, sclock>>
    /\ HistFrame

\* the times at which the history is appended to or read
HistTimes == {0, HalfDay, history_ttl + HalfDay}

\* time passes
HistElapse(t) ==
    /\ t > sclock
    /\ sclock' = t
    /\ UNCHANGED <<dstore, rstore, tres, hist>>
    /\ HistFrame

\* memory.py line 17-25: one round of the background task of the DictionaryBackend
HistCleanup ==
    /\ backend = "dict"
    /\ dstore' = Dict_cleanup_expired(dstore, sclock)
    /\ dstore' # dstore
    /\ UNCHANGED <<sclock, rstore, tres, hist>>
    /\ HistFrame

NextHistory ==
    \/ JobCreateTask
    \/ JobAcquire
    \/ JobWriteRelease
    \/ \E fault \in HistFaults, valid \in BOOLEAN : AddToHistory(fault, valid)
    \/ \E limit \in Limits : GetUserHistory(limit)
    \/ \E t \in HistTimes : HistElapse(t)
    \/ HistCleanup

SpecHistory == InitTaskService /\ [][NextHistory]_vars

\* the sorted set of the history key on the backend in use
HistoryZset ==
    IF backend = "redis"
    THEN LET r == RedisLive(rstore, sclock)
         IN  IF HISTORY_KEY \in DOMAIN r.zsets THEN r.zsets[HISTORY_KEY] ELSE <<>>
    ELSE IF HISTORY_KEY \in DOMAIN dstore.sorted_sets THEN dstore.sorted_sets[HISTORY_KEY]
         ELSE <<>>

\* the jobs whose entries the history holds, and those whose zadd went through
Retained == {json_loads(HistoryZset[i].member).v.task_id : i \in 1..Len(HistoryZset)}

Appended == (1..hist.count) \ hist.missing

\* job n finished at time n: the k latest of a set of jobs
MostRecent(S, k) == {x \in S : Cardinality({y \in S : y > x}) < k}

\* the task record on the backend in use
TaskRecord ==
    IF backend = "redis"
    THEN LET r == RedisLive(rstore, sclock)
         IN  IF TASK_KEY \in DOMAIN r.strings THEN <<r.strings[TASK_KEY], r.deadline[TASK_KEY]>>
             ELSE <<>>
    ELSE IF TASK_KEY \in DOMAIN dstore.data THEN <<dstore.data[TASK_KEY]>> ELSE <<>>

\* C15: when every add_to_history so far went through, none of them more
\* than 30 days back, the history holds at most history_cap entries, and once
\* more than history_cap were appended it holds exactly the history_cap
\* entries with the highest timestamps, on the Redis and on the in-memory
\* backend.
C15_HistoryKeepsMostRecent ==
    (hist.faults = 0 /\ sclock - hist.first < history_ttl) =>
        /\ Len(HistoryZset) <= history_cap
        /\ Cardinality(Appended) > history_cap => Retained = MostRecent(Appended, history_cap)

\* C16: get_user_history(limit) returns the min(limit, retained) most recent
\* entries of the history, most recent first.
C16_HistoryMostRecentFirstCapped ==
    (tres.op = "history" /\ tres.kind = "returned" /\ tres.at = sclock) =>
        LET limit == tres.arg[1]
            n == Len(HistoryZset)
        IN  /\ Len(tres.v) = IF limit < n THEN limit ELSE n
            /\ \A i \in 1..Len(tres.v) :
                   /\ tres.v[i].task_id \in Retained
                   /\ Cardinality({y \in Retained : y > tres.v[i].task_id}) = i - 1

\* C17: add_to_history returns normally whether or not the timestamp parses
\* and the store operations succeed, and it leaves the task record as it was.
C17_HistoryFailureSwallowed ==
    [][hist'.count # hist.count => (tres'.kind = "returned" /\ TaskRecord' = TaskRecord)]_vars

C17_Witness ==
    /\ tres.op = "add"
    /\ tres.arg \in {<<"parse">>, <<"zadd">>, <<"trim">>, <<"expire">>}
    /\ tres.kind = "returned"
    /\ TaskRecord # <<>>

(***************************************************************************)
(* The gate of flashcard.py called without a chatbot: the call goes through *)
(* retry and rate_limit like any other, reads the cache, and returns the    *)
(* text only on a miss.                                                     *)
(***************************************************************************)
\* rate_limit line 99-100 and flashcard.py line 153-162 with chatbot = None
PlainDispatch(c, read_last, slept) ==
    /\ last_called' = rl_now
    /\ dispatches' = Append(dispatches,
                            [at |-> rl_now, entry_last |-> read_last, slept |-> slept])
    /\ wake' = [wake EXCEPT ![c] = 0]
    /\ entry_last' = [entry_last EXCEPT ![c] = 0]
    /\ cpc' = [cpc EXCEPT ![c] = "idle"]
    /\ attempts' = [attempts EXCEPT ![c] = 0]
    /\ LET cached_summary == TTLCacheGet(lcache, LegacyCacheKey, rl_now \div calls)
       IN  outcome' = [outcome EXCEPT ![c] =
               [kind |-> "plain",
                ret |-> IF Truthy(cached_summary) THEN cached_summary ELSE S_A1,
                attempts |-> 1, bot_raised |-> FALSE, slept |-> slept, cache_read |-> TRUE]]
    /\ UNCHANGED lcache

\* a task calls get_cached_summary(text) without a chatbot (rate_limit line 96-100)
InvokePlain(c) ==
    /\ cpc[c] = "idle"
    /\ entered < MaxCalls
    /\ entered' = entered + 1
    /\ overlapped' = (overlapped \/ \E o \in Callers \ {c} : cpc[o] # "idle")
    /\ LET elapsed == rl_now - last_called
       IN  IF elapsed < min_interval
           THEN /\ cpc' = [cpc EXCEPT ![c] = "plain_sleeping"]
                /\ wake' = [wake EXCEPT ![c] = rl_now + (min_interval - elapsed)]
                /\ entry_last' = [entry_last EXCEPT ![c] = last_called]
                /\ attempts' = [attempts EXCEPT ![c] = 1]
                /\ outcome' = [outcome EXCEPT ![c] = NoOutcome]
                /\ UNCHANGED <<last_called, dispatches, lcache>>
           ELSE PlainDispatch(c, last_called, FALSE)
    /\ UNCHANGED rl_now
    /\ UNCHANGED <<pipe_vars, ext_vars>>

\* the asyncio.sleep of the rate limiter is over (rate_limit line 98-100)
WakePlain(c) ==
    /\ cpc[c] = "plain_sleeping"
    /\ rl_now >= wake[c]
    /\ PlainDispatch(c, entry_last[c], TRUE)
    /\ UNCHANGED <<rl_now, overlapped, entered>>
    /\ UNCHANGED <<pipe_vars, ext_vars>>

NextPlain ==
    \/ \E c \in Callers : Invoke(c)
    \/ \E c \in Callers : Wake(c)
    \/ \E c \in Callers, bot \in BotOutcomes : ChatbotReturns(c, bot)
    \/ Tick
    \/ \E c \in Callers : InvokePlain(c)
    \/ \E c \in Callers : WakePlain(c)

SpecPlain == InitGate /\ [][NextPlain]_vars

\* C11: a get_cached_summary call without a chatbot returns the text it was
\* given, without a rate-limit sleep and without reading the summary cache,
\* whatever the cache holds.
C11_NoSummarizerPassThrough ==
    \A c \in Callers :
        outcome[c].kind = "plain" =>
            /\ outcome[c].ret = S_A1
            /\ ~outcome[c].slept
            /\ ~outcome[c].cache_read

\* C21: when every add_to_history went through and the last one is more than
\* 30 days back, get_user_history returns an empty list, on the Redis and on
\* the in-memory backend.
C21_HistoryExpiresAfterThirtyDays ==
    (tres.op = "history" /\ hist.count > 0 /\ hist.faults = 0
        /\ tres.at - hist.last > history_ttl) =>
        (tres.kind = "returned" /\ tres.v = <<>>)

(***************************************************************************)
(* WebSocketManager (src/websockets/manager.py) and websocket_endpoint      *)
(* (websocket_routes.py), for the one task id the TaskService writes. The   *)
(* job of a task awaits its update_task_progress calls one after the other, *)
(* so one caller sends.                                                     *)
(***************************************************************************)
TASK_ID == "t1"

WebSockets == {"w1", "w2"}

JOB == "c1"

connections_set_Keep(conns, task_id, websocket) ==
    IF task_id \in DOMAIN conns THEN conns ELSE DictPut(conns, task_id, websocket)

\* manager.py line 27: self.connections[task_id] = websocket
connections_set(conns, task_id, websocket) == DictPut(conns, task_id, websocket)

disconnect_Keep(conns, task_id) == conns

\* manager.py line 33-42
disconnect(conns, task_id) == IF task_id \in DOMAIN conns THEN DictPop(conns, task_id) ELSE conns

connect_sends_Replay(events) == events

\* manager.py line 25-28: connect accepts and registers, it sends nothing
connect_sends(events) == <<>>

NoSend == [ws |-> "", id |-> 0]

WsInit ==
    /\ connections = EmptyDict
    /\ wpc = [w \in WebSockets |-> "new"]
    /\ inbox = [w \in WebSockets |-> <<>>]
    /\ sending = [c \in TaskCallers |-> NoSend]
    /\ wlog = [events |-> <<>>, reg |-> [w \in WebSockets |-> -1], order |-> <<>>,
               tries |-> <<>>, healed |-> FALSE]

WsFrame == UNCHANGED <<pipe_vars, gate_vars, store_vars, backend, tlock, tcaller, tcalls,
                       texpected, twrote, tkept, tres, hist, job, proc_vars>>

\* websocket_routes.py line 26, manager.py line 26: await websocket.accept()
WsConnect(w) ==
    /\ wpc[w] = "new"
    /\ wpc' = [wpc EXCEPT ![w] = "accepting"]
    /\ UNCHANGED <<connections, inbox, sending, wlog>>
    /\ WsFrame

\* manager.py line 27-31: accept is over; when it raised, connect raises and the
\* endpoint ends through its finally (websocket_routes.py line 48-54)
WsAccepted(w, ok) ==
    /\ wpc[w] = "accepting"
    /\ IF ok
       THEN /\ connections' = connections_set(connections, TASK_ID, w)
            /\ wpc' = [wpc EXCEPT ![w] = "open"]
            /\ inbox' = [inbox EXCEPT ![w] = @ \o connect_sends(wlog.events)]
            /\ wlog' = [wlog EXCEPT !.reg[w] = Len(wlog.events), !.order = Append(@, w),
                                    !.healed = FALSE]
       ELSE /\ connections' = disconnect(connections, TASK_ID)
            /\ wpc' = [wpc EXCEPT ![w] = "done"]
            /\ UNCHANGED <<inbox, wlog>>
    /\ UNCHANGED sending
    /\ WsFrame

\* websocket_routes.py line 28-33 and 53-54: receive_text raises when the client
\* is gone, the loop ends and the finally disconnects the task id
WsClosed(w) ==
    /\ wpc[w] = "open"
    /\ wpc' = [wpc EXCEPT ![w] = "done"]
    /\ connections' = disconnect(connections, TASK_ID)
    /\ UNCHANGED <<inbox, sending, wlog>>
    /\ WsFrame

SendFrame == UNCHANGED <<pipe_vars, gate_vars, store_vars, backend, tlock, tcalls,
                         texpected, twrote, tkept, hist, job, proc_vars>>

SendRes(id, how) ==
    [op |-> "update", kind |-> "returned", v |-> <<>>, code |-> 0, arg |-> <<id, how>>,
     at |-> sclock]

\* service.py line 62-64, manager.py line 52: no websocket is registered for the task
SendDropped(c) ==
    /\ tcaller[c].pc = "send"
    /\ TASK_ID \notin DOMAIN connections
    /\ tcaller' = [tcaller EXCEPT ![c] = NoCall]
    /\ wlog' = [wlog EXCEPT !.events = Append(@, [id |-> Len(@) + 1, data |-> tcaller[c].task_data]),
                            !.tries = Append(@, 0)]
    /\ tres' = SendRes(Len(wlog.events) + 1, "dropped")
    /\ UNCHANGED <<connections, wpc, inbox, sending>>
    /\ SendFrame

\* manager.py line 52-55: await websocket.send_json(progress_data)
SendBegin(c) ==
    /\ tcaller[c].pc = "send"
    /\ TASK_ID \in DOMAIN connections
    /\ tcaller' = [tcaller EXCEPT ![c].pc = "sending"]
    /\ sending' = [sending EXCEPT ![c] = [ws |-> connections[TASK_ID], id |-> Len(wlog.events) + 1]]
    /\ wlog' = [wlog EXCEPT !.events = Append(@, [id |-> Len(@) + 1, data |-> tcaller[c].task_data]),
                            !.tries = Append(@, 1)]
    /\ UNCHANGED <<connections, wpc, inbox, tres>>
    /\ SendFrame

\* manager.py line 55-59: send_json is over; when it raised, the task id is
\* disconnected and send_progress returns
SendEnd(c, ok) ==
    /\ tcaller[c].pc = "sending"
    /\ ok => wpc[sending[c].ws] = "open"
    /\ IF ok
       THEN /\ inbox' = [inbox EXCEPT ![sending[c].ws] = Append(@, wlog.events[sending[c].id])]
            /\ UNCHANGED <<connections, wlog>>
       ELSE /\ connections' = disconnect(connections, TASK_ID)
            /\ wlog' = [wlog EXCEPT !.healed = TRUE]
            /\ UNCHANGED inbox
    /\ tcaller' = [tcaller EXCEPT ![c] = NoCall]
    /\ sending' = [sending EXCEPT ![c] = NoSend]
    /\ tres' = SendRes(sending[c].id, IF ok THEN "sent" ELSE "failed")
    /\ UNCHANGED wpc
    /\ SendFrame

NextWs ==
    \/ CreateTask(JOB)
    \/ \E fields \in ProgressUpdates : UpdateTaskProgress(JOB, fields)
    \/ Acquire(JOB)
    \/ ReadMerge(JOB)
    \/ WriteRelease(JOB)
    \/ SendDropped(JOB)
    \/ SendBegin(JOB)
    \/ \E ok \in BOOLEAN : SendEnd(JOB, ok)
    \/ \E w \in WebSockets : WsConnect(w)
    \/ \E w \in WebSockets, ok \in BOOLEAN : WsAccepted(w, ok)
    \/ \E w \in WebSockets : WsClosed(w)

InitWs == PipeGateIdle /\ InitTask /\ WsInit /\ JobIdle /\ ProcIdle

SpecWs == InitWs /\ [][NextWs]_vars

WsTypeOK == DOMAIN connections \subseteq {TASK_ID}

RegisteredBefore(a, b) ==
    \E i, j \in 1..Len(wlog.order) : i < j /\ wlog.order[i] = a /\ wlog.order[j] = b

Received(w) == {inbox[w][i].id : i \in 1..Len(inbox[w])}

FailedSend == tcaller[JOB].pc = "sending" /\ tcaller'[JOB].pc = "idle" /\ inbox' = inbox

\* C22: connections holds at most one websocket for a task id, the one that
\* connected last; once a second websocket has connected for the task id, the
\* first one receives none of the progress events sent after that connect.
C22_OneSubscriberLastConnectWins ==
    /\ DOMAIN connections \subseteq {TASK_ID}
    /\ TASK_ID \in DOMAIN connections =>
           (wlog.order # <<>> /\ connections[TASK_ID] = wlog.order[Len(wlog.order)])
    /\ \A a, b \in WebSockets :
           RegisteredBefore(a, b) => \A id \in Received(a) : id <= wlog.reg[b]

C22_Witness ==
    \E a, b \in WebSockets :
        /\ RegisteredBefore(a, b)
        /\ wpc[a] = "open"
        /\ \E id \in Received(b) : id > wlog.reg[b]

\* C23: when send_json fails, send_progress removes the mapping of the task id
\* and update_task_progress returns without raising; from then on, until a
\* websocket connects, a send makes no delivery attempt and reaches no websocket.
C23_FailedSendDropsMapping ==
    [][/\ FailedSend =>
              /\ TASK_ID \notin DOMAIN connections'
              /\ tres'.op = "update" /\ tres'.kind = "returned"
       /\ (wlog.healed /\ wlog'.healed) => TASK_ID \notin DOMAIN connections'
       /\ (wlog.healed /\ Len(wlog'.events) > Len(wlog.events)) =>
              /\ wlog'.tries[Len(wlog'.tries)] = 0
              /\ inbox' = inbox
              /\ connections' = connections]_vars

C23_Witness ==
    /\ wlog.healed
    /\ Len(wlog.tries) >= 2
    /\ wlog.tries[Len(wlog.tries) - 1] = 1
    /\ wlog.tries[Len(wlog.tries)] = 0
    /\ tres.op = "update" /\ tres.kind = "returned" /\ Len(tres.arg) = 2
    /\ tres.arg[2] = "dropped"

\* C24: a send for a task id without a registered websocket changes nothing in
\* the manager and reaches no websocket, and a websocket that connects later
\* receives only events sent after its connect: nothing is queued or replayed.
C24_NoChannelNoQueue ==
    [][/\ (tcaller[JOB].pc = "send" /\ tcaller'[JOB].pc = "idle") =>
              UNCHANGED <<connections, wpc, inbox, sending>>
       /\ \A w \in WebSockets : \A id \in Received(w)' : id > wlog'.reg[w]]_vars

C24_Witness ==
    \E w \in WebSockets :
        /\ wpc[w] = "open"
        /\ wlog.reg[w] >= 1
        /\ wlog.tries[1] = 0
        /\ inbox[w] = <<>>
        /\ tcaller[JOB].pc = "idle"

\* C25: when the delivery fails during update_task_progress, the merged record
\* is the stored one, the call returns without raising, and the event had
\* exactly one delivery attempt.
C25_BroadcastFailureKeepsUpdate ==
    [][FailedSend =>
          /\ TaskAlive'
          /\ StoredTask' = tcaller[JOB].task_data
          /\ \A f \in DOMAIN tcaller[JOB].fields :
                 StoredTask'[f] = tcaller[JOB].fields[f]
          /\ tres'.op = "update" /\ tres'.kind = "returned"
          /\ wlog'.tries[sending[JOB].id] = 1]_vars

C25_Witness ==
    /\ tres.op = "update" /\ tres.kind = "returned" /\ Len(tres.arg) = 2
    /\ tres.arg[2] = "failed"
    /\ tkept
    /\ TaskAlive
    /\ StoredTask = twrote.doc
    /\ StoredTask.status = "completed"
    /\ StoredTask.notion_page = "page1"

FetchFailures == {"invalid_id", "no_url", "blocks_401", "blocks_404", "blocks_error", "no_content"}

\* notion/service.py line 111-146 and 286-303: what get_page_content raises
get_page_content(fetched) ==
    CASE fetched = "invalid_id" ->
             [exc |-> "ValidationError", text |-> "Invalid page ID format"]
      [] fetched = "no_url" ->
             [exc |-> "ResourceNotFoundError", text |-> "Notion page not found: page1"]
      [] fetched = "blocks_401" ->
             [exc |-> "NotionAuthenticationError", text |-> "Failed to authenticate with Notion API"]
      [] fetched = "blocks_404" ->
             [exc |-> "ResourceNotFoundError", text |-> "Notion page not found: page1"]
      [] fetched = "blocks_error" ->
             [exc |-> "ExternalServiceError", text |-> "Notion service error: APIResponseError"]
      [] OTHER ->
             [exc |-> "NotionError", text |-> "Page has no content"]

\* core/exceptions/domain.py line 6-24
NotionErrors == {"NotionError", "NotionAuthenticationError", "NotionContentError"}

failed_message_NoText(exc, text) == <<"Error", "">>

\* flashcard_routes.py line 121-138: the message of the failed update
failed_message(exc, text) ==
    IF exc \in NotionErrors THEN <<"Notion error: ", text>> ELSE <<"Error: ", text>>

TerminalStatuses == {"completed", "completed_with_errors", "failed"}

NewJob ==
    [pc |-> "new", created |-> FALSE, n |-> 0, fetch |-> "", exc |-> "", text |-> "",
     history |-> <<>>, cleanup_raised |-> FALSE, raised |-> FALSE]

InitJob ==
    /\ PipeInit
    /\ has_task_service
    /\ existing = <<>>
    /\ hashfn = CHOOSE h \in HashFns : TRUE
    /\ GateIdle
    /\ StoreIdle
    /\ TaskIdle
    /\ WsInit
    /\ job = NewJob
    /\ ProcIdle

Pending == Len(wlog.events) < Len(updates)

Running == job.pc = "run" /\ ~Pending

JobFrame == UNCHANGED <<has_chatbot, has_task_service, total_items, processed_items,
                        skipped_items, item, card, rows, existing, save_calls, save_raised,
                        result, cache, hashfn, now, gate_log, pc,
                        gate_vars, store_vars, backend, tlock, tcaller, tcalls, texpected,
                        twrote, tkept, tres, hist, ws_vars, proc_vars>>

\* an update_task_progress call of the job: stored, or HTTPException(500)
JobUpdate(ok, progress, status, message) ==
    /\ ok \/ faults < MaxFaults
    /\ updates' = IF ok THEN Append(updates, [progress |-> progress, status |-> status,
                                               message |-> message])
                  ELSE updates
    /\ faults' = IF ok THEN faults ELSE faults + 1
    /\ update_raised' = (update_raised \/ ~ok)

\* line 165-196: generate_flashcards creates the record and schedules the job
Generate(ok) ==
    /\ job.pc = "new"
    /\ ok \/ faults < MaxFaults
    /\ job' = IF ok THEN [job EXCEPT !.pc = "starting", !.created = TRUE]
              ELSE [job EXCEPT !.pc = "rejected", !.raised = TRUE]
    /\ faults' = IF ok THEN faults ELSE faults + 1
    /\ UNCHANGED <<updates, update_raised>>
    /\ JobFrame

\* line 49-51
JobStarting(ok) ==
    /\ job.pc = "starting"
    /\ JobUpdate(ok, 0, "starting", <<"Initializing components...">>)
    /\ job' = IF ok THEN [job EXCEPT !.pc = "setup"]
              ELSE [job EXCEPT !.pc = "except", !.exc = "HTTPException",
                               !.text = "500: Failed to update task status"]
    /\ JobFrame

\* line 53-70: the notion service, the chatbot and the repository are built
JobSetup(exc) ==
    /\ job.pc = "setup"
    /\ ~Pending
    /\ exc = "ChatBotError" => has_chatbot
    /\ job' = IF exc = "" THEN [job EXCEPT !.pc = "processing"]
              ELSE [job EXCEPT !.pc = "except", !.exc = exc, !.text = exc]
    /\ UNCHANGED <<updates, update_raised, faults>>
    /\ JobFrame

\* line 74-76
JobProcessing(ok) ==
    /\ job.pc = "processing"
    /\ JobUpdate(ok, 20, "processing", <<"Creating flashcards...">>)
    /\ job' = IF ok THEN [job EXCEPT !.pc = "fetch"]
              ELSE [job EXCEPT !.pc = "cleanup", !.exc = "HTTPException",
                               !.text = "500: Failed to update task status"]
    /\ JobFrame

\* line 92: a page of n records, or what get_page_content raises
JobFetch(fetched, n) ==
    /\ job.pc = "fetch"
    /\ ~Pending
    /\ fetched = "page" \/ n = 0
    /\ fetched = "page" => n > 0
    /\ job' = IF fetched = "page" THEN [job EXCEPT !.pc = "run", !.fetch = fetched, !.n = n]
              ELSE [job EXCEPT !.pc = "cleanup", !.fetch = fetched,
                               !.exc = get_page_content(fetched).exc,
                               !.text = get_page_content(fetched).text]
    /\ UNCHANGED <<updates, update_raised, faults>>
    /\ JobFrame

\* line 95-102: service.run() calls create_flashcards
RunCall == Running /\ Call(job.n)

RunProcessSingle(it, bot) == Running /\ ProcessSingle(it, bot)

RunSaveFlashcard(ok) == Running /\ SaveFlashcard(ok)

RunUpdateProgress(ok) == Running /\ UpdateProgress(ok)

RunExcept(ok) == Running /\ Except(ok)

RunPause == Running /\ Pause(0)

RunFinal(ok) == Running /\ Final(ok)

\* line 102-114: run returned its pair; add_to_history is called with the returned
\* status and returns whether or not the store took the entry (task/service.py
\* line 89-107)
JobHistory(ok) ==
    /\ Running
    /\ pc = "returned"
    /\ job' = [job EXCEPT !.pc = "cleanup",
                          !.history = Append(@, [task_id |-> TASK_ID, status |-> result.status,
                                                 stored |-> ok])]
    /\ UNCHANGED <<updates, update_raised, faults>>
    /\ JobFrame

\* service.py line 327-330: run raised what create_flashcards raised, as HTTPException
JobRunRaised ==
    /\ Running
    /\ pc = "raised"
    /\ job' = [job EXCEPT !.pc = "cleanup", !.exc = "HTTPException",
                          !.text = "500: Flashcard generation failed"]
    /\ UNCHANGED <<updates, update_raised, faults>>
    /\ JobFrame

\* line 116-119: finally; an exception of chatbot.cleanup() replaces the one in flight
JobCleanup(ok) ==
    /\ job.pc = "cleanup"
    /\ ~Pending
    /\ ok \/ has_chatbot
    /\ job' = IF ok THEN [job EXCEPT !.pc = IF job.exc = "" THEN "done" ELSE "except"]
              ELSE [job EXCEPT !.pc = "except", !.exc = "Exception", !.text = "cleanup failed",
                               !.cleanup_raised = TRUE]
    /\ UNCHANGED <<updates, update_raised, faults>>
    /\ JobFrame

\* line 121-139: both handlers store the failed status; when that update raises, the
\* job ends with HTTPException
JobExcept(ok) ==
    /\ job.pc = "except"
    /\ ~Pending
    /\ JobUpdate(ok, 100, "failed", failed_message(job.exc, job.text))
    /\ job' = [job EXCEPT !.pc = "done", !.raised = ~ok]
    /\ JobFrame

\* task/service.py line 62-66 and manager.py line 44-59: the stored record goes to
\* the websocket registered for the task, if there is one
JobSend(ok) ==
    /\ Pending
    /\ LET id == Len(wlog.events) + 1
           mapped == TASK_ID \in DOMAIN connections
       IN  /\ ok \/ mapped
           /\ (ok /\ mapped) => wpc[connections[TASK_ID]] = "open"
           /\ wlog' = [wlog EXCEPT !.events = Append(@, [id |-> id, data |-> updates[id]]),
                                   !.tries = Append(@, IF mapped THEN 1 ELSE 0),
                                   !.healed = IF ok THEN @ ELSE TRUE]
           /\ inbox' = IF ok /\ mapped
                       THEN [inbox EXCEPT ![connections[TASK_ID]] =
                                Append(@, [id |-> id, data |-> updates[id]])]
                       ELSE inbox
           /\ connections' = IF ok THEN connections ELSE disconnect(connections, TASK_ID)
    /\ UNCHANGED <<wpc, sending, job, proc_vars>>
    /\ UNCHANGED <<pipe_vars, gate_vars, store_vars, backend, tlock, tcaller, tcalls,
                   texpected, twrote, tkept, tres, hist>>

JobSubscribers == {"w1"}

\* the page's records: one that becomes a card and one whose card cannot be built
JobRecords ==
    {[front |-> S_Q1, back |-> S_A1, url |-> S_u1],
     [front |-> <<>>, back |-> S_A1, url |-> S_u1]}

Subscribe(w) == WsConnect(w)

Subscribed(w, ok) == WsAccepted(w, ok)

Unsubscribe(w) == WsClosed(w)

JobSteps ==
    \/ \E ok \in BOOLEAN : Generate(ok)
    \/ \E ok \in BOOLEAN : JobStarting(ok)
    \/ \E exc \in {"", "NotionAuthenticationError", "ChatBotError"} : JobSetup(exc)
    \/ \E ok \in BOOLEAN : JobProcessing(ok)
    \/ \E fetched \in FetchFailures \cup {"page"}, n \in 0..MaxRecords : JobFetch(fetched, n)
    \/ RunCall
    \/ \E it \in JobRecords, bot \in BotOutcomes : RunProcessSingle(it, bot)
    \/ \E ok \in BOOLEAN : RunSaveFlashcard(ok)
    \/ \E ok \in BOOLEAN : RunUpdateProgress(ok)
    \/ \E ok \in BOOLEAN : RunExcept(ok)
    \/ RunPause
    \/ \E ok \in BOOLEAN : RunFinal(ok)
    \/ \E ok \in BOOLEAN : JobHistory(ok)
    \/ JobRunRaised
    \/ \E ok \in BOOLEAN : JobCleanup(ok)
    \/ \E ok \in BOOLEAN : JobExcept(ok)
    \/ \E ok \in BOOLEAN : JobSend(ok)

NextJob ==
    \/ JobSteps
    \/ \E w \in JobSubscribers : Subscribe(w)
    \/ \E w \in JobSubscribers, ok \in BOOLEAN : Subscribed(w, ok)
    \/ \E w \in JobSubscribers : Unsubscribe(w)

SpecJob == InitJob /\ [][NextJob]_vars

\* every call the job awaits returns or fails; clients need not connect
SpecJobLive == SpecJob /\ WF_vars(JobSteps)

\* the status of the stored task record
StoredStatus ==
    IF updates # <<>> THEN updates[Len(updates)].status
    ELSE IF job.created THEN "initiated" ELSE ""


\* C26: when get_page_content raises, create_flashcards is never called, no record
\* is processed and nothing is saved; and once the job has ended, with the
\* chatbot's cleanup and the handler's own update not failing in turn, the stored
\* record has status failed, progress 100 and a message with the text of the error.
C26_FetchFailureAbortsTask ==
    job.fetch \in FetchFailures =>
        /\ pc = "idle"
        /\ processed_items = 0
        /\ save_calls = 0
        /\ rows = existing
        /\ job.pc \in {"cleanup", "except", "done"}
        /\ (job.pc = "done" /\ ~job.cleanup_raised /\ ~job.raised) =>
               /\ StoredStatus = "failed"
               /\ updates[Len(updates)].progress = 100
               /\ updates[Len(updates)].message[2] = get_page_content(job.fetch).text
               /\ updates[Len(updates)].message[1] =
                      (IF job.fetch \in {"blocks_401", "no_content"}
                       THEN "Notion error: " ELSE "Error: ")

C26_Witness ==
    /\ job.fetch = "blocks_401"
    /\ job.pc = "done"
    /\ has_chatbot
    /\ StoredStatus = "failed"
    /\ updates[Len(updates)].message = <<"Notion error: ", "Failed to authenticate with Notion API">>
    /\ ~Pending

\* the statuses the task record has held, oldest first
StatusHistory ==
    (IF job.created THEN <<"initiated">> ELSE <<>>) \o
    [i \in 1..Len(updates) |-> updates[i].status]

\* C28: the stored status is always one of created, starting, processing,
\* completed, completed_with_errors, failed, and the statuses the record has held
\* are created, then starting, then processing any number of times, then at most
\* one terminal status.
C28_StatusLifecycle ==
    LET h == StatusHistory
    IN  \A i \in 1..Len(h) :
            /\ h[i] \in {"created", "starting", "processing"} \cup TerminalStatuses
            /\ (h[i] = "created") <=> (i = 1)
            /\ (h[i] = "starting") <=> (i = 2)
            /\ h[i] \in TerminalStatuses => (i = Len(h) /\ i > 2)

\* C29: once the stored status is terminal the job makes no further
\* update_task_progress call and the stored record does not change.
C29_TerminalStatusIsFinal ==
    [][(StoredStatus \in TerminalStatuses) =>
          (updates' = updates /\ faults' = faults /\ (job.pc = "except" => job'.pc = "except"))]_vars

\* C30: a step of a subscriber changes nothing of the job, of the pipeline or of
\* the sink, and every job that has started ends with a terminal status stored.
C30_JobEndsWhateverSubscribersDo ==
    /\ [][(wpc' # wpc) => UNCHANGED <<pipe_vars, job>>]_vars
    /\ (job.pc = "starting") ~> (StoredStatus \in TerminalStatuses)

(***************************************************************************)
(* Properties of the Flashcard model and of the pipeline, checked under     *)
(* Spec                                                                     *)
(***************************************************************************)
\* C31: the Flashcard built from the record the pipeline is at has a front and a
\* back that are not empty, and no Flashcard is built from a record whose front
\* or back is empty or only whitespace.
C31_FlashcardNonEmptyAfterTrim ==
    item \in Records =>
        LET fc == FlashcardTable[item]
        IN  /\ ~fc.raised => (fc.front # <<>> /\ fc.back # <<>>)
            /\ (strip(item.front) = <<>> \/ strip(item.back) = <<>>) => fc.raised

\* a record the validator accepts, with a back, whose front the sink does not hold
ValidRecord(r) == validate_flashcard_content(r.front) /\ strip(r.back) # <<>>

SinkFronts == {rows[i].front : i \in 1..Len(rows)}

\* the row the sink is to receive for record r
RowOf(r, trimmed) ==
    IF trimmed
    THEN [front |-> strip(r.front), back |-> strip(r.back) \o LinkSuffix(r.url)]
    ELSE [front |-> r.front, back |-> r.back \o LinkSuffix(r.url)]

\* the steps of a run without chatbot and without failing calls, for a valid record
\* that is no duplicate: it goes to save_flashcard, which is called once and appends
\* its row; a run in which no record was skipped returns completed
PlainRunSaves(trimmed) ==
    (~has_chatbot /\ faults' = 0) =>
        /\ (pc = "item" /\ item' \in Records /\ ValidRecord(item')
                /\ strip(item'.front) \notin SinkFronts) =>
               (pc' = "save" /\ [front |-> card'.front, back |-> card'.back] = RowOf(item', trimmed))
        /\ (pc = "save" /\ ValidRecord(item)) =>
               /\ rows' = Append(rows, RowOf(item, trimmed))
               /\ save_calls' = save_calls + 1
               /\ pc' \in {"progress", "pause"}
        /\ (pc = "final" /\ skipped_items = 0) =>
               (pc' = "returned" /\ result'.status = "completed" /\ Saved' = total_items
                    /\ save_calls' = total_items)

C35_OnlyOwnDisconnectUnregisters ==
    [][\A w \in WebSockets :
          (/\ TASK_ID \in DOMAIN connections
           /\ connections[TASK_ID] = w
           /\ TASK_ID \notin DOMAIN connections') =>
              \/ wpc'[w] # wpc[w]
              \/ (FailedSend /\ sending[JOB].ws = w)]_vars

(***************************************************************************)
(* The job on longer pages: no chatbot, no subscriber, and every call of    *)
(* the store and of the sink succeeds                                       *)
(***************************************************************************)
InitLongJob == InitJob /\ ~has_chatbot

NextLongJob ==
    \/ Generate(TRUE)
    \/ JobStarting(TRUE)
    \/ JobSetup("")
    \/ JobProcessing(TRUE)
    \/ \E n \in 1..MaxPage : JobFetch("page", n)
    \/ RunCall
    \/ \E it \in JobRecords : RunProcessSingle(it, BotRaise)
    \/ RunSaveFlashcard(TRUE)
    \/ RunUpdateProgress(TRUE)
    \/ RunExcept(TRUE)
    \/ RunPause
    \/ RunFinal(TRUE)
    \/ JobHistory(TRUE)
    \/ JobCleanup(TRUE)
    \/ JobSend(TRUE)

SpecLongJob == InitLongJob /\ [][NextLongJob]_vars

\* C36: every progress value stored for the task is within 0..100 and none is
\* smaller than the one stored before it.
C36_ProgressNeverDecreases ==
    \A i \in 1..Len(updates) :
        /\ updates[i].progress \in 0..100
        /\ i > 1 => updates[i].progress >= updates[i - 1].progress

\* the entries of the user's history log that came from the job
HistoryLog == SelectSeq(job.history, LAMBDA e : e.stored)

\* C37: add_to_history is called for a task exactly when run returned a pair, and
\* at most once; the entry it stores carries the terminal status that the task's
\* record holds once the job has ended; a task that failed during initialization
\* or content fetch has no entry.
C37_HistoryEntryMatchesRecord ==
    /\ Len(job.history) <= 1
    /\ job.history # <<>> => pc = "returned"
    /\ (pc = "returned" /\ job.pc \in {"cleanup", "except", "done"}) => job.history # <<>>
    /\ (job.pc = "done" /\ pc = "idle") => HistoryLog = <<>>
    /\ job.pc = "done" =>
           \A i \in 1..Len(HistoryLog) : HistoryLog[i].status = StoredStatus

\* C38: a get_summary call that raises or returns an empty summary leaves nothing in
\* the cache: the cache holds only non-empty summaries that the chatbot returned,
\* and the next get_cached_summary call with the same prompt invokes the chatbot
\* again.
C38_FailedSummaryNotCached ==
    /\ \A i \in 1..Len(cache) :
          /\ Truthy(cache[i].value)
          /\ \E bot \in BotOutcomes : ~bot.raises /\ bot.value = cache[i].value
    /\ \A i \in 1..(Len(gate_log) - 1) :
          LET g1 == gate_log[i]
              g2 == gate_log[i + 1]
          IN  (g1.invoked /\ ~Truthy(g1.ret) /\ g1.prompt = g2.prompt)
              => (g2.invoked /\ ~g2.hit)

\* a call whose summary failed, then a call with the same prompt that invoked the
\* chatbot and cached its summary
C38_Witness ==
    /\ cache # <<>>
    /\ \E i \in 1..(Len(gate_log) - 1) :
          /\ gate_log[i].invoked
          /\ ~Truthy(gate_log[i].ret)
          /\ gate_log[i + 1].prompt = gate_log[i].prompt
          /\ gate_log[i + 1].invoked
          /\ Truthy(gate_log[i + 1].ret)

(***************************************************************************)
(* core/container.py: StorageConnection.get_connection and                  *)
(* DependencyContainer.get_task_service, called by the requests of one      *)
(* process. An instance is [id, kind, verified]; id 0 is None.              *)
(***************************************************************************)
DepCallers == {"c1", "c2"}

NoInstance == [id |-> 0, kind |-> "", verified |-> FALSE]

DepIdleCaller == [pc |-> "idle", op |-> "", storage |-> 0, ret |-> 0, raised |-> FALSE]

\* task/service.py line 17: __init__(self, redis, websocket_manager); a call with
\* another keyword raises TypeError
TaskService_init(kwargs) == kwargs = {"redis", "websocket_manager"}

InitContainer ==
    /\ PipeGateIdle
    /\ StoreIdle
    /\ TaskIdle
    /\ WsIdle
    /\ JobIdle
    /\ RepoIdle
    /\ \E st \in {"memory", "redis"} :
          container = [storage_type |-> st, instance |-> NoInstance, lock |-> "",
                       task_service |-> 0, backends |-> 0, services |-> 0, calls |-> 0]
    /\ dcaller = [c \in DepCallers |-> DepIdleCaller]

DepFrame == UNCHANGED <<pipe_vars, gate_vars, store_vars, backend, tlock, tcaller, tcalls,
                        texpected, twrote, tkept, tres, hist, ws_vars, job, sink, rproc>>

\* get_connection returned storage to caller c
ConnReturned(c, storage) ==
    IF dcaller[c].op = "get_task_service"
    THEN [dcaller EXCEPT ![c].pc = "construct", ![c].storage = storage]
    ELSE [dcaller EXCEPT ![c] = [DepIdleCaller EXCEPT !.op = "get_connection", !.ret = storage]]

\* line 102-105: a request asks for the storage
GetStorage(c) ==
    /\ dcaller[c].pc = "idle"
    /\ container.calls < MaxDepCalls
    /\ dcaller' = [dcaller EXCEPT ![c] = [DepIdleCaller EXCEPT !.pc = "lock",
                                                               !.op = "get_connection"]]
    /\ container' = [container EXCEPT !.calls = @ + 1]
    /\ DepFrame

\* line 93-101: a request asks for the TaskService; a missing one is created after
\* the await of get_connection
GetTaskService(c) ==
    /\ dcaller[c].pc = "idle"
    /\ container.calls < MaxDepCalls
    /\ dcaller' = [dcaller EXCEPT ![c] =
            IF container.task_service # 0
            THEN [DepIdleCaller EXCEPT !.op = "get_task_service",
                                       !.ret = container.task_service]
            ELSE [DepIdleCaller EXCEPT !.pc = "lock", !.op = "get_task_service"]]
    /\ container' = [container EXCEPT !.calls = @ + 1]
    /\ DepFrame

\* line 31-54, 58: under the lock; the RedisBackend is assigned to _instance before
\* the await of ping
ConnLock(c) ==
    /\ dcaller[c].pc = "lock"
    /\ container.lock = ""
    /\ IF container.instance # NoInstance
       THEN /\ dcaller' = ConnReturned(c, container.instance.id)
            /\ UNCHANGED container
       ELSE IF container.storage_type = "redis"
       THEN /\ container' = [container EXCEPT
                   !.instance = [id |-> container.backends + 1, kind |-> "RedisBackend",
                                 verified |-> FALSE],
                   !.backends = @ + 1, !.lock = c]
            /\ dcaller' = [dcaller EXCEPT ![c].pc = "ping"]
       ELSE /\ container' = [container EXCEPT
                   !.instance = [id |-> container.backends + 1, kind |-> "DictionaryBackend",
                                 verified |-> TRUE],
                   !.backends = @ + 1]
            /\ dcaller' = ConnReturned(c, container.backends + 1)
    /\ DepFrame

\* line 50-58: await redis_client.ping(); its exception is logged and raised again,
\* and the lock is released either way
ConnPing(c, ok) ==
    /\ dcaller[c].pc = "ping"
    /\ IF ok
       THEN /\ container' = [container EXCEPT !.instance.verified = TRUE, !.lock = ""]
            /\ dcaller' = ConnReturned(c, container.instance.id)
       ELSE /\ container' = [container EXCEPT !.lock = ""]
            /\ dcaller' = [dcaller EXCEPT ![c] = [DepIdleCaller EXCEPT !.op = dcaller[c].op,
                                                                       !.raised = TRUE]]
    /\ DepFrame

\* line 99-101: TaskService(storage=storage, websocket_manager=websocket_manager)
Construct(c) ==
    /\ dcaller[c].pc = "construct"
    /\ IF TaskService_init({"storage", "websocket_manager"})
       THEN /\ container' = [container EXCEPT !.task_service = container.services + 1,
                                              !.services = @ + 1]
            /\ dcaller' = [dcaller EXCEPT ![c] = [DepIdleCaller EXCEPT
                               !.op = "get_task_service", !.ret = container.services + 1]]
       ELSE /\ dcaller' = [dcaller EXCEPT ![c] = [DepIdleCaller EXCEPT
                               !.op = "get_task_service", !.raised = TRUE]]
            /\ UNCHANGED container
    /\ DepFrame

NextContainer ==
    \/ \E c \in DepCallers : GetStorage(c)
    \/ \E c \in DepCallers : GetTaskService(c)
    \/ \E c \in DepCallers : ConnLock(c)
    \/ \E c \in DepCallers, ok \in BOOLEAN : ConnPing(c, ok)
    \/ \E c \in DepCallers : Construct(c)

SpecContainer == InitContainer /\ [][NextContainer]_vars

\* C39: the process has at most one storage backend and at most one TaskService;
\* every get_connection and every get_task_service that returned gave the
\* instance the container holds; and when no ping is awaited, the container holds
\* either no backend or one whose connection was established.
C39_OneInstancePerProcess ==
    /\ container.backends <= 1
    /\ container.services <= 1
    /\ \A c \in DepCallers :
          dcaller[c].ret # 0 =>
              dcaller[c].ret = IF dcaller[c].op = "get_connection"
                               THEN container.instance.id
                               ELSE container.task_service
    /\ (\A c \in DepCallers : dcaller[c].pc # "ping") =>
          (container.instance = NoInstance \/ container.instance.verified)

(***************************************************************************)
(* repositories/flashcard_repository.py: one CSVFlashcardRepository, the    *)
(* pipeline saving into it and a request reading from it. The file is the   *)
(* sequence of its complete lines, one per row; partial is the row of which *)
(* a fragment has reached the file, or NoRow.                               *)
(***************************************************************************)
PIPELINE == "pipeline"
PREVIEW == "preview"
SinkUsers == {PIPELINE, PREVIEW}

NoRow == [front |-> <<>>, back |-> <<>>]

\* the cards the pipeline hands to save_flashcard
SinkCards ==
    {[front |-> S_Q1, back |-> S_A1 \o LinkSuffix(S_u1)],
     [front |-> S_Q2, back |-> S_A1 \o LinkSuffix(S_u2)]}

\* get_flashcards(self, limit: int = 5)
preview_limit == 5
PreviewLimits == {1, preview_limit}

SinkIdleUser == [pc |-> "idle", card |-> NoRow, limit |-> 0, rows |-> <<>>, partial |-> NoRow,
                 ret |-> <<>>, returned |-> FALSE, at |-> 0]

acquire_Free(lock) == TRUE

\* async with self._file_lock: entered when nobody holds the lock
acquire(lock) == lock = ""

\* line 84-87: str.splitlines() ends a line at every line break, those inside a
\* quoted field too, and csv.reader joins the pieces of a quoted field without them
LineBreaks == {"\n", "\r"}
csv_reader_row(row) ==
    [front |-> SelectSeq(row.front, LAMBDA ch : ch \notin LineBreaks),
     back |-> SelectSeq(row.back, LAMBDA ch : ch \notin LineBreaks)]

\* a line cut after its first field and the comma reads as a row with an empty back
csv_reader_fragment(row) == [csv_reader_row(row) EXCEPT !.back = <<>>]

\* line 85-87: list(reader)[:limit], each row as {"front", "back"}
csv_reader(lines, partial, limit) ==
    LET whole == [i \in 1..Len(lines) |-> csv_reader_row(lines[i])]
        all == IF partial = NoRow THEN whole ELSE Append(whole, csv_reader_fragment(partial))
    IN  SubSeq(all, 1, IF Len(all) < limit THEN Len(all) ELSE limit)

InitSink ==
    /\ PipeGateIdle
    /\ StoreIdle
    /\ TaskIdle
    /\ WsIdle
    /\ JobIdle
    /\ DepIdle
    /\ sink = [file |-> <<>>, exists |-> FALSE, partial |-> NoRow, lock |-> "", saves |-> 0,
               reads |-> 0]
    /\ rproc = [u \in SinkUsers |-> SinkIdleUser]

SinkFrame == UNCHANGED <<pipe_vars, gate_vars, store_vars, backend, tlock, tcaller, tcalls,
                         texpected, twrote, tkept, tres, hist, ws_vars, job, container,
                         dcaller>>

\* service.py line 249: the pipeline awaits save_flashcard(card)
SinkSave(c) ==
    /\ rproc[PIPELINE].pc = "idle"
    /\ sink.saves < MaxSaves
    /\ rproc' = [rproc EXCEPT ![PIPELINE] = [SinkIdleUser EXCEPT !.pc = "lock", !.card = c]]
    /\ sink' = [sink EXCEPT !.saves = @ + 1]
    /\ SinkFrame

\* line 105-107, 113-116: the lock, then the file opened for appending; a failure
\* leaves the lock and raises FlashcardStorageError
SinkSaveOpen(ok) ==
    /\ rproc[PIPELINE].pc = "lock"
    /\ acquire(sink.lock)
    /\ IF ok
       THEN /\ sink' = [sink EXCEPT !.lock = PIPELINE, !.exists = TRUE]
            /\ rproc' = [rproc EXCEPT ![PIPELINE].pc = "write"]
       ELSE /\ rproc' = [rproc EXCEPT ![PIPELINE] = SinkIdleUser]
            /\ UNCHANGED sink
    /\ SinkFrame

\* line 109-110: await writer.writerow(...); whether a part of the line is in the
\* file before the file is closed is the buffer's matter
SinkSaveWrite(part) ==
    /\ rproc[PIPELINE].pc = "write"
    /\ sink' = [sink EXCEPT !.partial = IF part THEN rproc[PIPELINE].card ELSE NoRow]
    /\ rproc' = [rproc EXCEPT ![PIPELINE].pc = "close"]
    /\ SinkFrame

\* line 106-112: the file is closed, the line is whole, the lock is released
SinkSaveClose ==
    /\ rproc[PIPELINE].pc = "close"
    /\ sink' = [sink EXCEPT !.file = Append(@, rproc[PIPELINE].card), !.partial = NoRow,
                            !.lock = ""]
    /\ rproc' = [rproc EXCEPT ![PIPELINE] = [SinkIdleUser EXCEPT !.returned = TRUE,
                                                                 !.at = Len(sink.file) + 1]]
    /\ SinkFrame

\* line 69-79: get_flashcards(limit); no file, no rows
SinkGet(limit) ==
    /\ rproc[PREVIEW].pc = "idle"
    /\ sink.reads < MaxReads
    /\ rproc' = [rproc EXCEPT ![PREVIEW] =
            IF sink.exists
            THEN [SinkIdleUser EXCEPT !.pc = "lock", !.limit = limit]
            ELSE [SinkIdleUser EXCEPT !.limit = limit, !.returned = TRUE]]
    /\ sink' = [sink EXCEPT !.reads = @ + 1]
    /\ SinkFrame

\* line 81-84, 90-93: the lock, then the file read; a failure is logged and the
\* empty list is returned
SinkGetRead(ok) ==
    /\ rproc[PREVIEW].pc = "lock"
    /\ acquire(sink.lock)
    /\ IF ok
       THEN /\ sink' = [sink EXCEPT !.lock = PREVIEW]
            /\ rproc' = [rproc EXCEPT ![PREVIEW].pc = "read", ![PREVIEW].rows = sink.file,
                                      ![PREVIEW].partial = sink.partial,
                                      ![PREVIEW].at = Len(sink.file)]
       ELSE /\ rproc' = [rproc EXCEPT ![PREVIEW] =
                   [SinkIdleUser EXCEPT !.limit = rproc[PREVIEW].limit, !.returned = TRUE]]
            /\ UNCHANGED sink
    /\ SinkFrame

\* line 85-93: the rows of the content, then the lock is released
SinkGetReturn ==
    /\ rproc[PREVIEW].pc = "read"
    /\ rproc' = [rproc EXCEPT ![PREVIEW].pc = "idle", ![PREVIEW].returned = TRUE,
                              ![PREVIEW].ret = csv_reader(rproc[PREVIEW].rows,
                                                          rproc[PREVIEW].partial,
                                                          rproc[PREVIEW].limit)]
    /\ sink' = [sink EXCEPT !.lock = IF @ = PREVIEW THEN "" ELSE @]
    /\ SinkFrame

NextSink ==
    \/ \E c \in SinkCards : SinkSave(c)
    \/ \E ok \in BOOLEAN : SinkSaveOpen(ok)
    \/ \E part \in BOOLEAN : SinkSaveWrite(part)
    \/ SinkSaveClose
    \/ \E limit \in PreviewLimits : SinkGet(limit)
    \/ \E ok \in BOOLEAN : SinkGetRead(ok)
    \/ SinkGetReturn

SpecSink == InitSink /\ [][NextSink]_vars

\* the rows of the first n lines of the file, as get_flashcards reads them
ReadBack(n) == [i \in 1..n |-> csv_reader_row(sink.file[i])]

\* C40: on one repository, a save and a read are never between their lock and its
\* release at the same time; what get_flashcards read holds no part of a row whose
\* save has not ended, and what it returned are rows of completely saved lines, in
\* the order of their saves, at most limit of them.
C40_ReadsSeeWholeRows ==
    /\ ~(rproc[PIPELINE].pc \in {"write", "close"} /\ rproc[PREVIEW].pc = "read")
    /\ rproc[PREVIEW].partial = NoRow
    /\ rproc[PREVIEW].rows = SubSeq(sink.file, 1, rproc[PREVIEW].at)
    /\ rproc[PREVIEW].returned =>
          LET ret == rproc[PREVIEW].ret
          IN  /\ Len(ret) <= rproc[PREVIEW].limit
              /\ Len(ret) <= rproc[PREVIEW].at
              /\ ret = SubSeq(ReadBack(rproc[PREVIEW].at), 1, Len(ret))

\* a read that began while the pipeline was waiting to append its second row
\* returned the first row
C40_Witness ==
    /\ rproc[PREVIEW].returned
    /\ rproc[PREVIEW].ret # <<>>
    /\ rproc[PREVIEW].at = 1
    /\ rproc[PIPELINE].pc = "lock"
    /\ sink.saves = 2

====
